---- MODULE Spec2Model ----
(***************************************************************************)
(* Job lifecycle of the shopping agent: the jobs table (db/database.py),   *)
(* process_job / _fire / schedule_job / worker_loop (workers/job_worker.py)*)
(* the cart-build pass of WalmartAgent (agent/walmart.py) and the handlers *)
(* that start or resume a job (bot/telegram_bot.py, bot/ai_handler.py,     *)
(* main.py).  Coroutines are cut at their await points.                    *)
(***************************************************************************)
EXTENDS Integers, Sequences, FiniteSets, TLC

VARIABLES
    jobs,             \* jobs table: job id -> row (status, result_url, error)
    items,            \* items table of the chat, in id order
    callbacks,        \* job_worker._callbacks
    running,          \* job_worker._running
    resume_sessions,  \* telegram_bot._resume_sessions (job ids with an open browser)
    spawning,         \* handlers suspended between create_job and create_task
    worker,           \* worker_loop: position and the rows returned by the poll
    exec,             \* process_job tasks, per job id and per way of starting
    ev,               \* what the last step did (delivered callback, ended task, ...)
    agent,            \* one WalmartAgent.build_cart call followed call by call
    call,             \* one call of a function of the parser, the session or the
                      \* product selection: its arguments and what it returned
    session_file      \* version of the content of the file at SESSION_PATH

vars == <<jobs, items, callbacks, running, resume_sessions, spawning, worker, exec, ev,
          agent, call, session_file>>

\* ------------------------------------------------------------------ bounds
MaxJobs  == 1     \* job ids
MaxLive  == 2     \* process_job tasks in flight at the same time
MaxItems == 2     \* rows of the chat's item list
MaxCookies == 3   \* cookies of a saved session file
MaxNames == 2     \* item names typed in a line
MaxQtys == 2      \* quantities typed in a line
MaxAmounts == 2   \* price amounts typed in a line
MaxRaw == 2       \* raw strings handed to _ai_parse_items
MaxReply == 2     \* objects in the AI parser's reply
MaxProducts == 2  \* products read from a page of search results
MaxWrites == 2    \* contents of the session file told apart

JobIds  == 1..MaxJobs

Null == "None"

\* ---------------------------------------------------------------- database
\* Row of the jobs table; status "absent" stands for "no row with this id".
JobRow(status, result_url, error) ==
    [status |-> status, result_url |-> result_url, error |-> error]

AbsentRow == JobRow("absent", Null, Null)

\* Keyword parameters update_job accepts besides job_id and status.
update_job_params == {"result_url", "error"}

\* update_job(job_id, status, **kw): TypeError unless every keyword is a parameter.
update_job_accepts(kw) == kw \subseteq update_job_params

\* The UPDATE statement: status, result_url and error are all overwritten.
update_job(tbl, job_id, status, result_url, error) ==
    IF tbl[job_id].status = "absent" THEN tbl
    ELSE [tbl EXCEPT ![job_id] = JobRow(status, result_url, error)]

create_job(tbl, job_id) == [tbl EXCEPT ![job_id] = JobRow("pending", Null, Null)]

\* SELECT ... WHERE status = 'pending' ORDER BY created_at: ids grow with creation.
RECURSIVE PendingFrom(_, _)
PendingFrom(tbl, j) ==
    IF j > MaxJobs THEN <<>>
    ELSE (IF tbl[j].status = "pending" THEN <<j>> ELSE <<>>) \o PendingFrom(tbl, j + 1)

get_pending_jobs(tbl) == PendingFrom(tbl, 1)

\* ------------------------------------------------------------------- items
Item(name, qty, max_price, brand) ==
    [name |-> name, qty |-> qty, max_price |-> max_price, brand |-> brand]

\* The rows a user adds, in the order they are added.
\* max_price is <<>> for NULL and <<p>> for the price p.
ItemPool == <<Item("milk", 2, <<>>, Null), Item("eggs", 1, <<5>>, Null),
              Item("noodles", 3, <<>>, "indomie")>>

\* label = f"{brand} {name}".strip() if brand else name
Label(it) == IF it.brand # Null THEN <<it.brand, it.name>> ELSE <<it.name>>


\* --------------------------------------------------------------- WalmartAgent
Screenshots == {Null, "png"}

\* What the site does on a page load followed by _check.
PageOutcomes == {"ok", "challenge", "error"}

\* Outcomes of the search_and_add calls made for one item, in call order:
\* "ok" (True), "fail" (False, any exception but the Challenge included),
\* "challenge" (BotChallengeError re-raised).
AttemptOutcomes == {"ok", "fail", "challenge"}

RECURSIVE Fails(_)
Fails(n) == IF n = 0 THEN <<>> ELSE <<"fail">> \o Fails(n - 1)

\* The calls stop at the first True or Challenge, or after max_attempts.
max_attempts == 3

ItemScripts ==
    {Fails(k) \o <<last>> : k \in 0..(max_attempts - 1), last \in {"ok", "challenge"}}
    \cup {Fails(max_attempts)}

\* search_and_add_with_retry: for attempt in range(1, max_attempts + 1)
RECURSIVE search_and_add_with_retry(_, _)
search_and_add_with_retry(outs, attempt) ==
    IF attempt > max_attempts \/ attempt > Len(outs) THEN "fail"
    ELSE IF outs[attempt] = "ok" THEN "ok"
    ELSE IF outs[attempt] = "challenge" THEN "challenge"
    ELSE search_and_add_with_retry(outs, attempt + 1)

\* What the site does during one build_cart call.
Scripts(n) ==
    [warm : PageOutcomes, outs : [1..n -> ItemScripts], cart : PageOutcomes,
     shot : Screenshots]

\* An exception leaves build_cart: the lists built so far are dropped, and
\* last_screenshot is what _safe_screenshot returned.
Raise(kind, shot) ==
    [kind |-> kind, cart_url |-> Null, added |-> <<>>, failed |-> <<>>, screenshot |-> shot]

\* build_cart from item i on, with the lists built so far.
RECURSIVE ItemLoop(_, _, _, _, _)
ItemLoop(its, script, i, added, failed) ==
    IF i > Len(its)
    THEN \* cart page, _check, screenshot when at least one item failed
         IF script.cart # "ok" THEN Raise(script.cart, script.shot)
         ELSE [kind |-> "return", cart_url |-> "cart", added |-> added, failed |-> failed,
               screenshot |-> IF failed # <<>> THEN script.shot ELSE Null]
    ELSE LET ok == search_and_add_with_retry(script.outs[i], 1) IN
         IF ok = "challenge" THEN Raise("challenge", script.shot)
         ELSE IF ok = "ok"
         THEN ItemLoop(its, script, i + 1, Append(added, Label(its[i])), failed)
         ELSE ItemLoop(its, script, i + 1, added, Append(failed, Label(its[i])))

\* WalmartAgent.build_cart: homepage and _check, the item loop, the cart page.
\* kind "return": the dict returned; otherwise the exception raised, after
\* last_screenshot = await _safe_screenshot(job_id).
build_cart(its, script) ==
    IF script.warm # "ok" THEN Raise(script.warm, script.shot)
    ELSE ItemLoop(its, script, 1, <<>>, <<>>)

\* ------------------------------------------------ _optimize_search_queries
OptName == [milk |-> "2% milk", eggs |-> "large eggs", noodles |-> "Indomie instant noodles"]

RECURSIVE BoolSeqs(_)
BoolSeqs(n) ==
    IF n = 0 THEN {<<>>}
    ELSE {Append(s, b) : s \in BoolSeqs(n - 1), b \in BOOLEAN}

\* A reply of the model: not ok (API error, unparsable text) or a JSON array;
\* entry TRUE is a non-blank string, entry FALSE anything else.
AIReplies(n) ==
    {[ok |-> FALSE, queries |-> <<>>]}
    \cup {[ok |-> TRUE, queries |-> q] : q \in UNION {BoolSeqs(k) : k \in 0..n}}

\* The loop over the reply's entries instead of the items.
_optimize_search_queries_by_reply(its, reply) ==
    IF its = <<>> \/ ~reply.ok THEN its
    ELSE [i \in 1..(IF Len(reply.queries) < Len(its) THEN Len(reply.queries) ELSE Len(its)) |->
            IF reply.queries[i]
            THEN [its[i] EXCEPT !.name = OptName[its[i].name], !.brand = Null]
            ELSE its[i]]

_optimize_search_queries(its, reply) ==
    IF its = <<>> \/ ~reply.ok THEN its
    ELSE [i \in 1..Len(its) |->
            IF i <= Len(reply.queries) /\ reply.queries[i]
            THEN [its[i] EXCEPT !.name = OptName[its[i].name], !.brand = Null]
            ELSE its[i]]

\* ------------------------------------------------------------------- tasks
Origins == {"sched", "direct"}

_EMPTY_RESULT == [cart_url |-> Null, added |-> <<>>, failed |-> <<>>, screenshot |-> Null]

\* Arguments of a _fire call.
FireArgs(cart_url, status, error, result) ==
    [cart_url |-> cart_url, status |-> status, error |-> error, result |-> result]

NoArgs == FireArgs(Null, Null, Null, _EMPTY_RESULT)

\* A process_job task: position, pass number, the rows read by get_items,
\* and agent.last_screenshot of the pass that raised the Challenge.
\* A task started by schedule_job is _run(): try: await process_job(job)
\* finally: _running.discard(jid)
IdleExec ==
    [pc |-> "idle", attempt |-> 0, items |-> <<>>, last_screenshot |-> Null]

NewExec == [IdleExec EXCEPT !.pc = "start"]

Live(j, o) == exec[j][o].pc # "idle"

LiveIn(ex) == {t \in JobIds \X Origins : ex[t[1]][t[2]].pc # "idle"}

TasksOf(j) == {o \in Origins : Live(j, o)}

\* asyncio.create_task(process_job(job))
create_task(ex, j, o) == [ex EXCEPT ![j][o] = NewExec]

NoEv == [type |-> "none"]

\* WalmartAgent.__aenter__ calls a run has made when it ends: none when it
\* returns before the  for attempt in range(1, 3)  loop, one per turn after.
agents_entered(attempt, after) == IF after = "noitems" THEN 0 ELSE attempt

\* ------------------------------------------------------------- process_job
\* _fire without the  try / except  around  await cb(...).
_fire_unprotected(j, o, args, after) ==
    /\ callbacks' = [callbacks EXCEPT ![j] = Null]
    /\ exec' = [exec EXCEPT ![j][o] = IdleExec]
    /\ running' = IF o = "sched" THEN running \ {j} ELSE running
    /\ \E raised \in BOOLEAN :
         /\ callbacks[j] = Null => ~raised
         /\ ev' = [type |-> "end", job |-> j, origin |-> o,
                   outcome |-> IF raised THEN "escaped" ELSE "returned",
                   exc |-> IF raised THEN "callback" ELSE Null,
                   after |-> after, attempt |-> exec[j][o].attempt, items |-> exec[j][o].items,
                   entered |-> agents_entered(exec[j][o].attempt, after),
                   cb |-> callbacks[j], args |-> IF callbacks[j] # Null THEN args ELSE NoArgs,
                   cb_raised |-> raised]

\* _fire: cb = _callbacks.pop(job_id, None); if cb: await cb(...), its
\* exceptions logged; process_job then returns.
\* after: how the pass before it ended ("return", "challenge", "error", "noitems").
\* raised: the callback raises an exception.
_fire(j, o, args, after) ==
    /\ callbacks' = [callbacks EXCEPT ![j] = Null]
    /\ exec' = [exec EXCEPT ![j][o] = IdleExec]
    /\ running' = IF o = "sched" THEN running \ {j} ELSE running
    /\ \E raised \in BOOLEAN :
         /\ callbacks[j] = Null => ~raised
         /\ ev' = [type |-> "end", job |-> j, origin |-> o, outcome |-> "returned",
                   exc |-> Null,
                   after |-> after, attempt |-> exec[j][o].attempt, items |-> exec[j][o].items,
                   entered |-> agents_entered(exec[j][o].attempt, after),
                   cb |-> callbacks[j], args |-> IF callbacks[j] # Null THEN args ELSE NoArgs,
                   cb_raised |-> raised]

\* An exception leaves process_job, and _run has no  finally.
Escape_keeping_running(j, o, exc, after) ==
    /\ UNCHANGED <<jobs, callbacks, running>>
    /\ exec' = [exec EXCEPT ![j][o] = IdleExec]
    /\ ev' = [type |-> "end", job |-> j, origin |-> o, outcome |-> "escaped", exc |-> exc,
              after |-> after, attempt |-> exec[j][o].attempt, items |-> exec[j][o].items,
              entered |-> agents_entered(exec[j][o].attempt, after),
              cb |-> Null, args |-> NoArgs, cb_raised |-> FALSE]

\* An exception leaves process_job: nothing is written, nothing is fired.
Escape(j, o, exc, after) ==
    /\ UNCHANGED <<jobs, callbacks>>
    /\ exec' = [exec EXCEPT ![j][o] = IdleExec]
    /\ running' = IF o = "sched" THEN running \ {j} ELSE running
    /\ ev' = [type |-> "end", job |-> j, origin |-> o, outcome |-> "escaped", exc |-> exc,
              after |-> after, attempt |-> exec[j][o].attempt, items |-> exec[j][o].items,
              entered |-> agents_entered(exec[j][o].attempt, after),
              cb |-> Null, args |-> NoArgs, cb_raised |-> FALSE]

\* await update_job(job_id, "running"); get_chat; item_rows = await get_items(chat_id)
Start(j, o) ==
    /\ exec[j][o].pc = "start"
    /\ jobs' = update_job(jobs, j, "running", Null, Null)
    /\ exec' = [exec EXCEPT ![j][o].pc = "pass", ![j][o].items = items, ![j][o].attempt = 1]
    /\ ev' = NoEv
    /\ UNCHANGED <<items, callbacks, running, resume_sessions, spawning, worker, agent, call, session_file>>

\* The no-items branch with the error text left out.
NoItems_without_error(j, o) ==
    /\ jobs' = update_job(jobs, j, "failed", Null, Null)
    /\ _fire(j, o, FireArgs(Null, "failed", Null, _EMPTY_RESULT), "noitems")

\* if not item_rows: update_job(job_id, "failed", error="No items in list"); _fire; return
NoItems(j, o) ==
    /\ jobs' = update_job(jobs, j, "failed", Null, "No items in list")
    /\ _fire(j, o, FireArgs(Null, "failed", "No items in list", _EMPTY_RESULT), "noitems")

\* The done branch with the cart URL left out of the update_job call.
Done_without_url(j, o, result) ==
    /\ jobs' = update_job(jobs, j, "done", Null, Null)
    /\ _fire(j, o, FireArgs(result.cart_url, "done", Null, result), "return")

\* await update_job(job_id, "done", result_url=result["cart_url"]); _fire; return
Done(j, o, result) ==
    /\ jobs' = update_job(jobs, j, "done", result.cart_url, Null)
    /\ _fire(j, o, FireArgs(result.cart_url, "done", Null, result), "return")

\* msg = "Walmart needs verification"
\* await update_job(job_id, "needs_user", error=msg, screenshot=screenshot); _fire; return
NeedsUser(j, o, screenshot) ==
    IF update_job_accepts({"error", "screenshot"})
    THEN /\ jobs' = update_job(jobs, j, "needs_user", Null, "Walmart needs verification")
         /\ _fire(j, o, FireArgs(Null, "needs_user", "Walmart needs verification",
                            [_EMPTY_RESULT EXCEPT !.screenshot = screenshot]), "challenge")
    ELSE Escape(j, o, "TypeError", "challenge")

\* except Exception as exc:  msg = str(exc)
\* await update_job(job_id, "failed", error=msg, screenshot=screenshot); _fire; return
Failed(j, o, screenshot) ==
    IF update_job_accepts({"error", "screenshot"})
    THEN /\ jobs' = update_job(jobs, j, "failed", Null, "exc")
         /\ _fire(j, o, FireArgs(Null, "failed", "exc",
                            [_EMPTY_RESULT EXCEPT !.screenshot = screenshot]), "error")
    ELSE Escape(j, o, "TypeError", "error")

\* except BotChallengeError:  first pass: refresh_session_headful comes next
OnChallenge(j, o, screenshot) ==
    IF exec[j][o].attempt = 1
    THEN /\ exec' = [exec EXCEPT ![j][o].pc = "refresh", ![j][o].last_screenshot = screenshot]
         /\ ev' = NoEv
         /\ UNCHANGED <<jobs, callbacks, running>>
    ELSE NeedsUser(j, o, screenshot)

\* result = await agent.build_cart(items_run, job_id=job_id) and its handlers.
OnResult(j, o, r) ==
    IF r.kind = "return"
    THEN Done(j, o, [cart_url |-> r.cart_url, added |-> r.added,
                     failed |-> r.failed, screenshot |-> r.screenshot])
    ELSE IF r.kind = "challenge"
    THEN OnChallenge(j, o, r.screenshot)
    ELSE Failed(j, o, r.screenshot)

\* Replies of the model that a pass is run with: an error, or an array of
\* strings for the first k items.
RECURSIVE Trues(_)
Trues(n) == IF n = 0 THEN <<>> ELSE <<TRUE>> \o Trues(n - 1)

PassReplies(n) ==
    {[ok |-> FALSE, queries |-> <<>>]} \cup {[ok |-> TRUE, queries |-> Trues(k)] : k \in 0..n}

\* The item lists a pass can be run on, and for each the outcomes of build_cart
\* over everything the site can do.
RunLists ==
    {_optimize_search_queries(SubSeq(ItemPool, 1, MaxItems), reply) :
        reply \in PassReplies(MaxItems)}

PassResults == [its \in RunLists |-> {build_cart(its, script) : script \in Scripts(Len(its))}]

\* The empty list, or one pass of  for attempt in range(1, 3):
\*   items_run = await _optimize_search_queries(items)
\*   async with WalmartAgent(postal_code=postal_code) as agent: try: build_cart ...
Pass(j, o) ==
    /\ exec[j][o].pc = "pass"
    /\ LET its == exec[j][o].items IN
       IF its = <<>>
       THEN NoItems(j, o)
       ELSE \/ \* __aenter__ raises: outside the try, nothing catches it
               Escape(j, o, "aenter", "aenter")
            \/ \* __aenter__ raises after firefox.launch returned (_clean_session
               \* on an unreadable file, new_context, add_init_script, new_page)
               Escape(j, o, "new_context", "aenter")
            \/ \E items_run \in {_optimize_search_queries(its, reply) :
                                    reply \in PassReplies(Len(its))} :
                 \E r \in PassResults[items_run] : OnResult(j, o, r)
    /\ UNCHANGED <<items, resume_sessions, spawning, worker, agent, call, session_file>>

\* refresh_session_headful: browser = await pw.firefox.launch(headless=False),
\* called in the except clause, inside  async with WalmartAgent(...) as agent.
RefreshLaunch(j, o) ==
    /\ exec[j][o].pc = "refresh"
    /\ exec' = [exec EXCEPT ![j][o].pc = "refreshing"]
    /\ ev' = NoEv
    /\ UNCHANGED <<jobs, items, callbacks, running, resume_sessions, spawning, worker, agent, call, session_file>>

\* Browsers a task holds open: the agent's from __aenter__ to __aexit__, the
\* headful one from its launch to the finally of refresh_session_headful.
open_browsers(ex) ==
    IF ex.pc = "refresh" THEN {"agent"}
    ELSE IF ex.pc = "refreshing" THEN {"agent", "headful"}
    ELSE {}

\* Browsers a run launched and has not closed when it ends.  async with calls
\* __aexit__ only when __aenter__ returned, and __aenter__ closes nothing
\* itself; refresh_session_headful closes its browser in its finally.
browsers_left_open(exc) == IF exc = "new_context" THEN {"agent"} ELSE {}

\* await context.storage_state(path=str(dest)): the file gets a new content.
storage_state(file) == (file + 1) % (MaxWrites + 1)

\* The refresh saving the session before it looks at the page's URL.
Refresh_saving_when_blocked(j, o) ==
    /\ exec[j][o].pc \in {"refresh", "refreshing"}
    /\ \E refreshed \in BOOLEAN :
         /\ exec[j][o].pc = "refresh" => ~refreshed
         /\ session_file' = IF exec[j][o].pc = "refreshing" THEN storage_state(session_file)
                             ELSE session_file
         /\ IF refreshed
            THEN /\ exec' = [exec EXCEPT ![j][o].pc = "pass", ![j][o].attempt = 2,
                                         ![j][o].last_screenshot = Null]
                 /\ ev' = NoEv
                 /\ UNCHANGED <<jobs, callbacks, running>>
            ELSE NeedsUser(j, o, exec[j][o].last_screenshot)
    /\ UNCHANGED <<items, resume_sessions, spawning, worker, agent, call>>

\* refreshed = await refresh_session_headful(); True: continue with the second
\* pass.  False also when the launch itself raised.
Refresh(j, o) ==
    /\ exec[j][o].pc \in {"refresh", "refreshing"}
    /\ \E refreshed \in BOOLEAN :
         /\ exec[j][o].pc = "refresh" => ~refreshed
         /\ session_file' = IF refreshed THEN storage_state(session_file) ELSE session_file
         /\ IF refreshed
            THEN /\ exec' = [exec EXCEPT ![j][o].pc = "pass", ![j][o].attempt = 2,
                                         ![j][o].last_screenshot = Null]
                 /\ ev' = NoEv
                 /\ UNCHANGED <<jobs, callbacks, running>>
            ELSE NeedsUser(j, o, exec[j][o].last_screenshot)
    /\ UNCHANGED <<items, resume_sessions, spawning, worker, agent, call>>

\* ------------------------------------------------- schedule_job, worker_loop
\* schedule_job without the  if jid in _running: return  guard.
schedule_job_unguarded(st, jid) ==
    [running |-> st.running \cup {jid}, exec |-> create_task(st.exec, jid, "sched")]

\* schedule_job(job) on the pair st = [running, exec].
schedule_job(st, jid) ==
    IF jid \in st.running THEN st
    ELSE [running |-> st.running \cup {jid}, exec |-> create_task(st.exec, jid, "sched")]

\* for job in rows: schedule_job(job)
RECURSIVE ScheduleAll(_, _)
ScheduleAll(rows, st) ==
    IF rows = <<>> THEN st
    ELSE ScheduleAll(Tail(rows), schedule_job(st, Head(rows)))

Range(rows) == {rows[i] : i \in 1..Len(rows)}

\* worker_loop without its  try / except: an exception ends the loop.
WorkerPoll_dying ==
    /\ worker.pc = "sleep"
    /\ \/ worker' = [pc |-> "polled", rows |-> get_pending_jobs(jobs)]
       \/ worker' = [pc |-> "dead", rows |-> <<>>]
    /\ ev' = NoEv
    /\ UNCHANGED <<jobs, items, callbacks, running, resume_sessions, spawning, exec, agent, call, session_file>>

\* worker_loop: rows = await get_pending_jobs(); an exception is logged and
\* the loop sleeps again.
WorkerPoll ==
    /\ worker.pc = "sleep"
    /\ \/ worker' = [pc |-> "polled", rows |-> get_pending_jobs(jobs)]
       \/ worker' = worker
    /\ ev' = NoEv
    /\ UNCHANGED <<jobs, items, callbacks, running, resume_sessions, spawning, exec, agent, call, session_file>>

\* worker_loop: the for loop over the rows, then asyncio.sleep(3).
WorkerDispatch ==
    /\ worker.pc = "polled"
    /\ Cardinality(LiveIn(exec)) + Cardinality(Range(worker.rows) \ running) <= MaxLive
    /\ LET st == ScheduleAll(worker.rows, [running |-> running, exec |-> exec])
       IN /\ running' = st.running
          /\ exec' = st.exec
          /\ ev' = [type |-> "dispatch", rows |-> worker.rows,
                    skipped |-> Range(worker.rows) \cap running]
    /\ worker' = [pc |-> "sleep", rows |-> <<>>]
    /\ UNCHANGED <<jobs, items, callbacks, resume_sessions, spawning, agent, call, session_file>>

\* ------------------------------------------------------------------ handlers
Absent == {j \in JobIds : jobs[j].status = "absent"}

\* str(uuid.uuid4())[:8]: an id no row has.
FreshId == CHOOSE j \in Absent : \A k \in Absent : j <= k

\* /add <items>: parse_items of the user's comma-separated list, add_items.
add_command ==
    /\ items = <<>>
    /\ items' = SubSeq(ItemPool, 1, MaxItems)
    /\ ev' = NoEv
    /\ UNCHANGED <<jobs, callbacks, running, resume_sessions, spawning, worker, exec, agent, call, session_file>>

\* /clear
clear_command ==
    /\ items # <<>>
    /\ items' = <<>>
    /\ ev' = NoEv
    /\ UNCHANGED <<jobs, callbacks, running, resume_sessions, spawning, worker, exec, agent, call, session_file>>

\* The request without the  if not rows  check.
create_job_request_unchecked(via) ==
    /\ Absent # {}
    /\ jobs' = create_job(jobs, FreshId)
    /\ spawning' = [spawning EXCEPT ![FreshId] = via]
    /\ ev' = NoEv
    /\ UNCHANGED <<items, callbacks, running, resume_sessions, worker, exec, agent, call, session_file>>

\* run_command and the build_cart tool of _run_tool ("chat"), api_create_job
\* ("api"), up to the end of await create_job(job_id, chat_id).
create_job_request(via) ==
    /\ IF items = <<>>
       THEN /\ ev' = [type |-> "empty_list", via |-> via]
            /\ UNCHANGED <<jobs, spawning>>
       ELSE /\ Absent # {}
            /\ jobs' = create_job(jobs, FreshId)
            /\ spawning' = [spawning EXCEPT ![FreshId] = via]
            /\ ev' = NoEv
    /\ UNCHANGED <<items, callbacks, running, resume_sessions, worker, exec, agent, call, session_file>>

\* The rest of the handler: register_callback(job_id, on_done) on the chat
\* paths, then asyncio.create_task(process_job(job)).
start_task(j) ==
    /\ spawning[j] # Null
    /\ ~Live(j, "direct")
    /\ Cardinality(LiveIn(exec)) < MaxLive
    /\ callbacks' = IF spawning[j] = "api" THEN callbacks
                    ELSE [callbacks EXCEPT ![j] = "on_done"]
    /\ exec' = create_task(exec, j, "direct")
    /\ spawning' = [spawning EXCEPT ![j] = Null]
    /\ ev' = NoEv
    /\ UNCHANGED <<jobs, items, running, resume_sessions, worker, agent, call, session_file>>

\* /resume without the  if job["status"] != "needs_user"  check.
resume_command_unchecked(j) ==
    /\ jobs[j].status # "absent"
    /\ \E opened \in BOOLEAN :
         /\ resume_sessions' = IF opened THEN resume_sessions \cup {j}
                               ELSE resume_sessions \ {j}
         /\ ev' = NoEv
    /\ UNCHANGED <<jobs, items, callbacks, running, spawning, worker, exec, agent, call, session_file>>

\* /resume <job_id> and the "Open Browser" button.
resume_command(j) ==
    /\ jobs[j].status # "absent"
    /\ IF jobs[j].status # "needs_user"
       THEN /\ ev' = [type |-> "resume_refused", job |-> j]
            /\ UNCHANGED resume_sessions
       ELSE \E opened \in BOOLEAN :
              /\ resume_sessions' = IF opened THEN resume_sessions \cup {j}
                                    ELSE resume_sessions \ {j}
              /\ ev' = NoEv
    /\ UNCHANGED <<jobs, items, callbacks, running, spawning, worker, exec, agent, call, session_file>>

\* /continue <job_id> and the "Done" button:
\*   session = _resume_sessions.pop(job_id, None); if session is None: return
\*   save_session, close, get_job,
\*   await update_job(job_id, "pending", error=None, screenshot=None)
continue_command(j) ==
    /\ jobs[j].status # "absent"
    /\ resume_sessions' = resume_sessions \ {j}
    /\ IF j \notin resume_sessions
       THEN /\ ev' = [type |-> "continue", job |-> j, session |-> FALSE, exc |-> Null,
                      was |-> jobs[j].status]
            /\ UNCHANGED <<jobs, spawning>>
       ELSE IF update_job_accepts({"error", "screenshot"})
            THEN /\ jobs' = update_job(jobs, j, "pending", Null, Null)
                 /\ spawning' = [spawning EXCEPT ![j] = "continue"]
                 /\ ev' = [type |-> "continue", job |-> j, session |-> TRUE, exc |-> Null,
                           was |-> jobs[j].status]
            ELSE /\ ev' = [type |-> "continue", job |-> j, session |-> TRUE, exc |-> "TypeError",
                           was |-> jobs[j].status]
                 /\ UNCHANGED <<jobs, spawning>>
    /\ \* try: await session.save_session() ... except Exception: logger.warning
       \E saved \in BOOLEAN :
         /\ j \notin resume_sessions => ~saved
         /\ session_file' = IF saved THEN storage_state(session_file) ELSE session_file
    /\ UNCHANGED <<items, callbacks, running, worker, exec, agent, call>>

\* /link_done: linker = _link_sessions.get(chat_id); when there is one and it
\* is logged in, await linker.save_session(SESSION_PATH).
link_done_command ==
    /\ \E saved \in BOOLEAN :
         /\ session_file' = IF saved THEN storage_state(session_file) ELSE session_file
         /\ ev' = [type |-> "link_done", saved |-> saved]
    /\ UNCHANGED <<jobs, items, callbacks, running, resume_sessions, spawning, worker, exec,
                   agent, call>>

\* The process is stopped and started again: the tasks, _callbacks, _running
\* and _resume_sessions are gone, the tables are what they were (lifespan:
\* worker_task.cancel(); then init_db() and a new worker_loop).
shutdown ==
    /\ LiveIn(exec) # {}
    /\ callbacks' = [j \in JobIds |-> Null]
    /\ running' = {}
    /\ resume_sessions' = {}
    /\ spawning' = [j \in JobIds |-> Null]
    /\ worker' = [pc |-> "sleep", rows |-> <<>>]
    /\ exec' = [j \in JobIds |-> [o \in Origins |-> IdleExec]]
    /\ ev' = [type |-> "restart", abandoned |-> {j \in JobIds : TasksOf(j) # {}}]
    /\ UNCHANGED <<jobs, items, agent, call, session_file>>

\* ------------------------------------------- build_cart, one call at a time
\* The same build_cart, cut at the calls it awaits: the homepage load, each
\* search_and_add call made by search_and_add_with_retry, the cart page.
\* log: the search_and_add calls made and the labels recorded, in order.
NoResult == Raise(Null, Null)

\* steps: the best-effort steps taken, and whether something failed inside.
\* blocked: <<>> in a run's first build_cart call; in the call made after a
\* silent refresh, <<l>> for the list l of labels that the call before it,
\* which ended on a Challenge, had added.
IdleAgent ==
    [pc |-> "idle", items |-> <<>>, i |-> 0, attempt |-> 0,
     added |-> <<>>, failed |-> <<>>, log |-> <<>>, steps |-> <<>>, blocked |-> <<>>,
     result |-> NoResult]

\* What happens inside a best-effort step: it gets to its end, or one of its
\* page operations raises.
BestEffort == {"done", "failed"}

\* _set_postal_code: its body is inside  try / except Exception: logger.warning
_set_postal_code(inside) == "returned"

\* The quantity update without its  try / except.
_update_cart_qty_raising(inside) == IF inside = "failed" THEN "raised" ELSE "returned"

\* _update_cart_qty: its body is inside  try / except Exception: logger.debug
_update_cart_qty(inside) == "returned"

\* _safe_screenshot: the path, or None from its  except Exception
_safe_screenshot(inside) == IF inside = "failed" THEN Null ELSE "png"

StepEntry(step, k, attempt, inside) ==
    [step |-> step, item |-> k, attempt |-> attempt, inside |-> inside]

\* agent.build_cart(items_run, job_id=job_id) is entered.
NewAgent(its) == [IdleAgent EXCEPT !.pc = "warm", !.items = its]

LogEntry(op, k, label, attempt, out) ==
    [op |-> op, item |-> k, label |-> label, attempt |-> attempt, out |-> out]

\* The loop taken from the end of the list.
item_at_reversed(its, k) == its[Len(its) + 1 - k]

\* The item reached by the k-th turn of  for item in items.
item_at(its, k) == its[k]

\* except Exception: self.last_screenshot = await self._safe_screenshot(job_id); raise
agent_raise(ag, kind, shot) == [ag EXCEPT !.pc = "raised", !.result = Raise(kind, shot)]

\* The loop goes to the next item, or leaves for the cart page.
next_item(ag) ==
    IF ag.i + 1 > Len(ag.items) THEN [ag EXCEPT !.pc = "cart", !.i = ag.i + 1, !.attempt = 0]
    ELSE [ag EXCEPT !.pc = "item", !.i = ag.i + 1, !.attempt = 1]

\* An item that was not added ends the pass with an exception.
item_done_aborting(ag, ok) ==
    LET label == Label(item_at(ag.items, ag.i))
        done  == [ag EXCEPT
                    !.added  = IF ok THEN Append(ag.added, label) ELSE ag.added,
                    !.failed = IF ok THEN ag.failed ELSE Append(ag.failed, label),
                    !.log    = Append(ag.log, LogEntry(IF ok THEN "added" ELSE "failed",
                                                        ag.i, label, 0, Null))]
    IN IF ok THEN next_item(done) ELSE agent_raise(done, "error", Null)

\* if ok: added.append(label) else: failed.append(label)
item_done(ag, ok) ==
    LET label == Label(item_at(ag.items, ag.i)) IN
    next_item([ag EXCEPT
        !.added  = IF ok THEN Append(ag.added, label) ELSE ag.added,
        !.failed = IF ok THEN ag.failed ELSE Append(ag.failed, label),
        !.log    = Append(ag.log, LogEntry(IF ok THEN "added" ELSE "failed",
                                            ag.i, label, 0, Null))])

\* The retry loop one turn short.
retry_or_give_up_early(ag) ==
    IF ag.attempt + 1 < max_attempts THEN [ag EXCEPT !.attempt = ag.attempt + 1]
    ELSE item_done(ag, FALSE)

\* search_and_add_with_retry after a call that returned False (or raised
\* anything but the Challenge): another turn of
\* for attempt in range(1, max_attempts + 1), or return False.
retry_or_give_up(ag) ==
    IF ag.attempt + 1 <= max_attempts THEN [ag EXCEPT !.attempt = ag.attempt + 1]
    ELSE item_done(ag, FALSE)

\* The Challenge handled like any other exception of a call.
after_search_and_add_masking(ag, out, shot) ==
    LET label  == Label(item_at(ag.items, ag.i))
        logged == [ag EXCEPT !.log = Append(ag.log,
                      LogEntry("search_and_add", ag.i, label, ag.attempt, out))]
    IN IF out = "ok" THEN item_done(logged, TRUE)
       ELSE retry_or_give_up(logged)

\* One search_and_add call, and what search_and_add_with_retry and build_cart
\* do with its outcome.
after_search_and_add(ag, out, shot) ==
    LET label  == Label(item_at(ag.items, ag.i))
        logged == [ag EXCEPT !.log = Append(ag.log,
                      LogEntry("search_and_add", ag.i, label, ag.attempt, out))]
    IN IF out = "ok" THEN item_done(logged, TRUE)
       ELSE IF out = "challenge" THEN agent_raise(logged, "challenge", shot)
       ELSE retry_or_give_up(logged)

\* page.goto(WALMART_BASE); await self._check(); _set_postal_code()
warm_up ==
    /\ agent.pc = "warm"
    /\ \E out \in PageOutcomes, shot \in Screenshots, postal \in BestEffort :
         /\ out # "ok" => postal = "done"
         /\ agent' = IF out # "ok" THEN agent_raise(agent, out, shot)
                     ELSE IF _set_postal_code(postal) = "raised"
                     THEN agent_raise(agent, "error", shot)
                     ELSE next_item([agent EXCEPT !.steps =
                              Append(agent.steps, StepEntry("_set_postal_code", 0, 0, postal))])
    /\ UNCHANGED <<jobs, items, callbacks, running, resume_sessions, spawning, worker,
                   exec, ev, call, session_file>>

\* search_and_add: after a successful add,  if qty > 1: await
\* self._update_cart_qty(qty); an exception there would be caught by its
\* except Exception: return False.
search_and_add ==
    /\ agent.pc = "item"
    /\ \E out \in AttemptOutcomes, shot \in Screenshots, update \in BestEffort :
         /\ (out # "challenge" => shot = Null)
         /\ IF out = "ok" /\ item_at(agent.items, agent.i).qty > 1
            THEN agent' = [after_search_and_add(
                              agent,
                              IF _update_cart_qty(update) = "raised" THEN "fail" ELSE "ok",
                              shot)
                           EXCEPT !.steps = Append(agent.steps,
                               StepEntry("_update_cart_qty", agent.i, agent.attempt, update))]
            ELSE /\ update = "done"
                 /\ agent' = after_search_and_add(agent, out, shot)
    /\ UNCHANGED <<jobs, items, callbacks, running, resume_sessions, spawning, worker,
                   exec, ev, call, session_file>>

\* The cart page returning the added labels only.
cart_page_without_failed ==
    /\ agent.pc = "cart"
    /\ \E out \in PageOutcomes, shot \in Screenshots :
         agent' = IF out # "ok" THEN agent_raise(agent, out, shot)
                  ELSE [agent EXCEPT
                          !.pc = "returned",
                          !.result = [kind |-> "return", cart_url |-> "cart",
                                      added |-> agent.added, failed |-> <<>>,
                                      screenshot |-> IF agent.failed # <<>> THEN shot
                                                     ELSE Null]]
    /\ UNCHANGED <<jobs, items, callbacks, running, resume_sessions, spawning, worker,
                   exec, ev, call, session_file>>

\* page.goto(/en/cart); await self._check(); the screenshot when an item
\* failed; return {...}
cart_page ==
    /\ agent.pc = "cart"
    /\ \E out \in PageOutcomes, shot \in Screenshots :
         agent' = IF out # "ok" THEN agent_raise(agent, out, shot)
                  ELSE [agent EXCEPT
                          !.pc = "returned",
                          !.result = [kind |-> "return", cart_url |-> "cart",
                                      added |-> agent.added, failed |-> agent.failed,
                                      screenshot |-> IF agent.failed # <<>> THEN shot
                                                     ELSE Null]]
    /\ UNCHANGED <<jobs, items, callbacks, running, resume_sessions, spawning, worker,
                   exec, ev, call, session_file>>

\* process_job gets the outcome of the call: the dict, or the exception at
\* its except clauses.
build_cart_ends(j, o) ==
    /\ agent.pc \in {"returned", "raised"}
    /\ exec[j][o].pc = "pass"
    /\ OnResult(j, o, agent.result)
    /\ agent' = [agent EXCEPT !.pc = "handled"]
    /\ UNCHANGED <<items, resume_sessions, spawning, worker, call, session_file>>

\* A second pass that goes on from where the first one stopped, with its lists.
build_cart_again_resuming(j, o) ==
    /\ agent.pc = "handled"
    /\ exec[j][o].pc = "pass"
    /\ exec[j][o].attempt = 2
    /\ \E its \in RunLists :
         agent' = [NewAgent(its) EXCEPT !.blocked = <<agent.added>>,
                                        !.added = agent.added,
                                        !.failed = agent.failed,
                                        !.i = IF agent.i > 0 THEN agent.i - 1 ELSE 0]
    /\ UNCHANGED <<jobs, items, callbacks, running, resume_sessions, spawning, worker,
                   exec, ev, call, session_file>>

\* The second turn of  for attempt in range(1, 3), after  continue:
\*   items_run = await _optimize_search_queries(items)
\*   async with WalmartAgent(postal_code=postal_code) as agent:
\*       result = await agent.build_cart(items_run, job_id=job_id)
\* a new WalmartAgent, and build_cart's  added = []; failed = [].
build_cart_again(j, o) ==
    /\ agent.pc = "handled"
    /\ exec[j][o].pc = "pass"
    /\ exec[j][o].attempt = 2
    /\ \E its \in RunLists : agent' = [NewAgent(its) EXCEPT !.blocked = <<agent.added>>]
    /\ UNCHANGED <<jobs, items, callbacks, running, resume_sessions, spawning, worker,
                   exec, ev, call, session_file>>

\* ------------------------------------------------------------------ strings
\* A str is a sequence of one-character strings; U+00D7 is the
\* multiplication sign.
Whitespace == {" "}

DigitChars == <<"0", "1", "2", "3", "4", "5", "6", "7", "8", "9">>

IsDigit(c) == \E d \in 1..10 : DigitChars[d] = c

DigitVal(c) == (CHOOSE d \in 1..10 : DigitChars[d] = c) - 1

UpperChars == <<"A", "B", "C", "D", "E", "F", "G", "H", "I", "J", "K", "L", "M",
                "N", "O", "P", "Q", "R", "S", "T", "U", "V", "W", "X", "Y", "Z">>

LowerChars == <<"a", "b", "c", "d", "e", "f", "g", "h", "i", "j", "k", "l", "m",
                "n", "o", "p", "q", "r", "s", "t", "u", "v", "w", "x", "y", "z">>

\* str.lower() of one character, and of a str
lower_char(c) ==
    IF \E k \in 1..26 : UpperChars[k] = c
    THEN LowerChars[CHOOSE k \in 1..26 : UpperChars[k] = c]
    ELSE c

lower(s) == [k \in 1..Len(s) |-> lower_char(s[k])]

\* A local variable: the value v it is bound to, named in what follows
With(v, F(_)) == F(v)

\* s[a:b] of Python for 1-based a and exclusive 1-based b
Slice(s, a, b) == SubSeq(s, a, b - 1)

RECURSIVE lstrip(_, _)
lstrip(s, cs) == IF s # <<>> /\ Head(s) \in cs THEN lstrip(Tail(s), cs) ELSE s

RECURSIVE rstrip(_, _)
rstrip(s, cs) ==
    IF s # <<>> /\ s[Len(s)] \in cs THEN rstrip(SubSeq(s, 1, Len(s) - 1), cs) ELSE s

strip(s, cs) == rstrip(lstrip(s, cs), cs)

\* re.sub(r"\s+", " ", s)
RECURSIVE sub_spaces(_)
sub_spaces(s) ==
    IF s = <<>> THEN <<>>
    ELSE IF Head(s) \in Whitespace
    THEN <<" ">> \o sub_spaces(lstrip(Tail(s), Whitespace))
    ELSE <<Head(s)>> \o sub_spaces(Tail(s))

\* str.split(): the whitespace-separated words
RECURSIVE split(_)
split(s) ==
    LET t == lstrip(s, Whitespace) IN
    IF t = <<>> THEN <<>>
    ELSE LET n == CHOOSE n \in 1..Len(t) :
                    /\ \A k \in 1..n : t[k] \notin Whitespace
                    /\ (n = Len(t) \/ t[n + 1] \in Whitespace)
         IN <<SubSeq(t, 1, n)>> \o split(SubSeq(t, n + 1, Len(t)))

\* int() of a run of digits
RECURSIVE int(_)
int(ds) == IF ds = <<>> THEN 0 ELSE 10 * int(SubSeq(ds, 1, Len(ds) - 1)) + DigitVal(ds[Len(ds)])

\* float() of a run of digits and dots: ValueError unless there is a digit and
\* at most one dot; the value is kept as units and decimals without trailing
\* zeros.
float_ok(g) ==
    /\ \E k \in 1..Len(g) : IsDigit(g[k])
    /\ Cardinality({k \in 1..Len(g) : g[k] = "."}) <= 1

float(g) ==
    LET dot == IF \E k \in 1..Len(g) : g[k] = "."
               THEN CHOOSE k \in 1..Len(g) : g[k] = "." ELSE Len(g) + 1
    IN [units |-> int(SubSeq(g, 1, dot - 1)),
        decimals |-> rstrip(SubSeq(g, dot + 1, Len(g)), {"0"})]

\* Regex pieces; a position is the index of the next character to read and
\* 0 is "no match".
\* c* for a character class, greedy
RECURSIVE skip(_, _, _)
skip(s, p, cs) == IF p <= Len(s) /\ s[p] \in cs THEN skip(s, p + 1, cs) ELSE p

\* [^...]* greedy
RECURSIVE skip_not(_, _, _)
skip_not(s, p, cs) == IF p <= Len(s) /\ s[p] \notin cs THEN skip_not(s, p + 1, cs) ELSE p

\* c?
opt(s, p, c) == IF p <= Len(s) /\ s[p] = c THEN p + 1 ELSE p

\* a literal word matched without re.IGNORECASE
lit_exact(s, p, w) ==
    IF p = 0 \/ p + Len(w) - 1 > Len(s) THEN 0
    ELSE IF \A k \in 1..Len(w) : s[p + k - 1] = w[k] THEN p + Len(w)
    ELSE 0

\* a literal word under re.IGNORECASE
lit(s, p, w) ==
    IF p = 0 \/ p + Len(w) - 1 > Len(s) THEN 0
    ELSE IF \A k \in 1..Len(w) : lower_char(s[p + k - 1]) = w[k] THEN p + Len(w)
    ELSE 0

\* \s+
spaces1(s, p) == IF p = 0 THEN 0 ELSE IF skip(s, p, Whitespace) > p THEN skip(s, p, Whitespace) ELSE 0

\* -------------------------------------------------------------- parser.py
UnitWordList == <<
    <<"p", "a", "c", "k">>, <<"p", "k">>, <<"c", "t">>,
    <<"c", "o", "u", "n", "t">>, <<"p", "i", "e", "c", "e">>, <<"p", "c", "s">>,
    <<"s", "e", "t">>, <<"k", "g">>, <<"g">>,
    <<"m", "g">>, <<"l", "b">>, <<"l", "b", "s">>,
    <<"o", "z">>, <<"l">>, <<"m", "l">>,
    <<"l", "i", "t", "r", "e">>, <<"l", "i", "t", "e", "r">>, <<"l", "i", "t", "e", "r", "s">>,
    <<"l", "i", "t", "r", "e", "s">>, <<"d", "o", "z", "e", "n">>, <<"b", "o", "x">>,
    <<"b", "a", "g">>, <<"c", "a", "n">>, <<"b", "o", "t", "t", "l", "e">>,
    <<"r", "o", "l", "l">>, <<"r", "o", "l", "l", "s">>, <<"s", "h", "e", "e", "t">>,
    <<"s", "h", "e", "e", "t", "s">>, <<"p", "o", "d">>, <<"p", "o", "d", "s">>,
    <<"t", "a", "b">>, <<"t", "a", "b", "s">>
    >>

_UNIT_WORDS == {UnitWordList[k] : k \in DOMAIN UnitWordList}

\* The literal words of the patterns
MAX_ == <<"m", "a", "x">>
IMUM_ == <<"i", "m", "u", "m">>
UNDER_ == <<"u", "n", "d", "e", "r">>
UP_ == <<"u", "p">>
TO_ == <<"t", "o">>
AT_ == <<"a", "t">>
MOST_ == <<"m", "o", "s", "t">>
BRAND_ == <<"b", "r", "a", "n", "d">>

NoMatch == [start |-> 0, end |-> 0, group |-> <<>>]

\* (?:max(?:imum)?|under|up\s+to|at\s+most): "max" alone can only go on to
\* whitespace, ":", "$" or a digit, so "maximum" is taken whenever it is there.
price_keyword(s, p) ==
    With(lit(s, p, MAX_), LAMBDA max :
        IF max # 0 THEN With(lit(s, max, IMUM_), LAMBDA imum : IF imum # 0 THEN imum ELSE max)
        ELSE With(lit(s, p, UNDER_), LAMBDA under :
            IF under # 0 THEN under
            ELSE With(lit(s, p, UP_), LAMBDA up :
                IF up # 0 THEN lit(s, spaces1(s, up), TO_)
                ELSE lit(s, spaces1(s, lit(s, p, AT_)), MOST_))))

\* _PRICE_PAT matched from position p:
\* \(?\s*(?:...)\s*:?\s*\$?([\d.]+)\s*\)?
price_match_at(s, p) ==
    With(price_keyword(s, skip(s, opt(s, p, "("), Whitespace)), LAMBDA k :
    With(opt(s, skip(s, opt(s, skip(s, k, Whitespace), ":"), Whitespace), "$"), LAMBDA d :
    With(skip(s, d, {DigitChars[n] : n \in 1..10} \cup {"."}), LAMBDA e :
        IF k = 0 \/ e = d THEN NoMatch
        ELSE [start |-> p, end |-> opt(s, skip(s, e, Whitespace), ")"),
              group |-> Slice(s, d, e)])))

\* _BRAND_PAT matched from position p: \(?\s*brand\s*:\s*([^\s),]+)\s*\)?
brand_match_at(s, p) ==
    With(lit(s, skip(s, opt(s, p, "("), Whitespace), BRAND_), LAMBDA k :
    With(skip(s, k, Whitespace), LAMBDA c :
    With(skip(s, c + 1, Whitespace), LAMBDA d :
    With(skip_not(s, d, Whitespace \cup {")", ","}), LAMBDA e :
        IF k = 0 \/ c > Len(s) \/ s[c] # ":" \/ e = d THEN NoMatch
        ELSE [start |-> p, end |-> opt(s, skip(s, e, Whitespace), ")"),
              group |-> Slice(s, d, e)]))))

\* pattern.search(s): the match at the leftmost position that has one
RECURSIVE price_search(_, _)
price_search(s, p) ==
    IF p > Len(s) + 1 THEN NoMatch
    ELSE With(price_match_at(s, p), LAMBDA m :
              IF m.start # 0 THEN m ELSE price_search(s, p + 1))

RECURSIVE brand_search(_, _)
brand_search(s, p) ==
    IF p > Len(s) + 1 THEN NoMatch
    ELSE With(brand_match_at(s, p), LAMBDA m :
              IF m.start # 0 THEN m ELSE brand_search(s, p + 1))

\* re.sub(r"\s+", " ", s[: m.start()] + " " + s[m.end() :]).strip()
cut(s, m) ==
    strip(sub_spaces(Slice(s, 1, m.start) \o <<" ">> \o Slice(s, m.end, Len(s) + 1)),
          Whitespace)

XChars == {"x", "X", "U+00D7"}

\* Index of the first digit of the run of digits s ends with (Len(s) + 1: none)
RECURSIVE digits_at_end(_, _)
digits_at_end(s, p) == IF p > 1 /\ IsDigit(s[p - 1]) THEN digits_at_end(s, p - 1) ELSE p

\* Index of the first character of the run of whitespace that ends at p - 1
RECURSIVE spaces_before(_, _)
spaces_before(s, p) == IF p > 1 /\ s[p - 1] \in Whitespace THEN spaces_before(s, p - 1) ELSE p

\* _QTY_SUFFIX.search(s): \s+[xX×](\d+)$
qty_suffix(s) ==
    LET d == digits_at_end(s, Len(s) + 1)
        w == spaces_before(s, d - 1)
    IN IF d > Len(s) \/ d < 3 THEN NoMatch
       ELSE IF s[d - 1] \notin XChars \/ w = d - 1 THEN NoMatch
       ELSE [start |-> w, end |-> Len(s) + 1, group |-> Slice(s, d, Len(s) + 1)]

\* _QTY_PREFIX.match(s): ^(\d+)\s*[xX×]\s+(.+)$ ; group is group(1) and
\* start the index group(2) begins at
qty_prefix(s) ==
    LET a == skip(s, 1, {DigitChars[n] : n \in 1..10})
        b == skip(s, a, Whitespace)
        c == skip(s, b + 1, Whitespace)
    IN IF a = 1 \/ b > Len(s) THEN NoMatch
       ELSE IF s[b] \notin XChars \/ c = b + 1 THEN NoMatch
       ELSE IF c > Len(s) THEN (IF c - 1 > b + 1
                                THEN [start |-> c - 1, end |-> Len(s) + 1, group |-> Slice(s, 1, a)]
                                ELSE NoMatch)
       ELSE [start |-> c, end |-> Len(s) + 1, group |-> Slice(s, 1, a)]

\* _QTY_BARE.search(s): \s+(\d+)$
qty_bare(s) ==
    LET d == digits_at_end(s, Len(s) + 1)
        w == spaces_before(s, d)
    IN IF d > Len(s) \/ w = d THEN NoMatch
       ELSE [start |-> w, end |-> Len(s) + 1, group |-> Slice(s, d, Len(s) + 1)]

\* last_word = preceding.split()[-1].lower().rstrip("s") if preceding else ""
last_word(preceding) ==
    IF preceding = <<>> THEN <<>>
    ELSE rstrip(lower(split(preceding)[Len(split(preceding))]), {"s"})

\* Step 3 of parse_item: the quantity and what is left of s
extract_qty(s) ==
    With(qty_suffix(s), LAMBDA suffix :
    IF suffix.start # 0
    THEN [qty |-> int(suffix.group), s |-> strip(Slice(s, 1, suffix.start), Whitespace)]
    ELSE With(qty_prefix(s), LAMBDA prefix :
    IF prefix.start # 0
    THEN [qty |-> int(prefix.group),
          s |-> strip(Slice(s, prefix.start, Len(s) + 1), Whitespace)]
    ELSE With(qty_bare(s), LAMBDA bare :
    IF bare.start # 0
    THEN With(strip(Slice(s, 1, bare.start), Whitespace), LAMBDA preceding :
         IF last_word(preceding) \notin _UNIT_WORDS
         THEN [qty |-> int(bare.group), s |-> preceding]
         ELSE [qty |-> 1, s |-> s])
    ELSE [qty |-> 1, s |-> s])))

\* no clamp
Max_unclamped(a, b) == b

Max(a, b) == IF a >= b THEN a ELSE b

\* parse_item(raw); exc is the exception raised (float of the price group)
parse_item(raw) ==
    With(strip(raw, Whitespace), LAMBDA s0 :
    With(price_search(s0, 1), LAMBDA pm :
    IF pm.start # 0 /\ ~float_ok(pm.group)
    THEN [exc |-> "ValueError", name |-> <<>>, qty |-> 0, max_price |-> <<>>, brand |-> <<>>]
    ELSE
    With(IF pm.start # 0 THEN cut(s0, pm) ELSE s0, LAMBDA s1 :
    With(brand_search(s1, 1), LAMBDA bm :
    With(extract_qty(IF bm.start # 0 THEN cut(s1, bm) ELSE s1), LAMBDA q :
        [exc |-> Null,
         name |-> strip(sub_spaces(q.s), {" ", ",", "(", ")", "[", "]"}),
         qty |-> Max(1, q.qty),
         max_price |-> IF pm.start # 0 THEN <<float(pm.group)>> ELSE <<>>,
         brand |-> IF bm.start # 0 THEN strip(bm.group, Whitespace) ELSE <<>>])))))

\* re.split(r"[\n,]+", text): the pieces between runs of commas
RECURSIVE split_commas(_)
split_commas(text) ==
    LET n == skip_not(text, 1, {","}) IN
    IF n > Len(text) THEN <<text>>
    ELSE <<Slice(text, 1, n)>> \o split_commas(Slice(text, skip(text, n, {","}), Len(text) + 1))

\* parse_items: blank pieces and pieces starting with "/" are skipped, and
\* so are items whose name comes out empty. An exception of parse_item ends
\* the loop: the list then ends with the item that carries it.
RECURSIVE parse_pieces(_)
parse_pieces(pieces) ==
    IF pieces = <<>> THEN <<>>
    ELSE With(strip(Head(pieces), Whitespace), LAMBDA raw :
         IF raw = <<>> \/ Head(raw) = "/" THEN parse_pieces(Tail(pieces))
         ELSE With(parse_item(raw), LAMBDA parsed :
              IF parsed.exc # Null THEN <<parsed>>
              ELSE IF parsed.name # <<>> THEN <<parsed>> \o parse_pieces(Tail(pieces))
              ELSE parse_pieces(Tail(pieces))))

parse_items(text) == parse_pieces(split_commas(text))

\* ------------------------------------------------------------- function calls
NoCall == [fn |-> "none", pc |-> "idle"]

\* A call that has been made and has not returned.
Called(fn, arg) == [fn |-> fn, pc |-> "called", arg |-> arg, ret |-> <<>>]

\* ---------------------------------------------------------- _clean_session
_TRACKING_COOKIES ==
    {"_abck", "ak_bmsc", "bm_sv", "bm_sz", "pxcts", "_pxvid", "__pxvid",
     "akavpau_p1", "akavpau_p2", "rxvt", "rxVisitor"}

\* data["cookies"] = [c for c in data.get("cookies", []) if c.get("name") not in _TRACKING_COOKIES]
RECURSIVE keep_cookies(_)
keep_cookies(cs) ==
    IF cs = <<>> THEN <<>>
    ELSE IF Head(cs).name \notin _TRACKING_COOKIES THEN <<Head(cs)>> \o keep_cookies(Tail(cs))
    ELSE keep_cookies(Tail(cs))

\* The filter with the test the wrong way round.
_clean_session_inverted(data) ==
    [cookies |-> SelectSeq(IF "cookies" \in DOMAIN data THEN data.cookies ELSE <<>>,
                           LAMBDA c : c.name \in _TRACKING_COOKIES),
     origins |-> data.origins]

\* _clean_session(path): data is the JSON of the file
_clean_session(data) ==
    [cookies |-> keep_cookies(IF "cookies" \in DOMAIN data THEN data.cookies ELSE <<>>),
     origins |-> data.origins]

\* Names a saved cookie can have: tracking ones, others, one that differs
\* from a tracking name by its case only.
CookieNames == {"_abck", "bm_sz", "rxVisitor", "auth", "cart", "_ABCK"}

\* Saved files: each cookie's value tells where it was in the file.
CookieLists ==
    UNION {{[k \in 1..n |-> [name |-> f[k], value |-> k]] : f \in [1..n -> CookieNames]} :
              n \in 0..MaxCookies}

SessionFiles ==
    {[origins |-> "origins"]} \cup {[cookies |-> cs, origins |-> "origins"] : cs \in CookieLists}

\* The places that load the saved session into a browser context:
\* ctx_kwargs["storage_state"] = _clean_session(SESSION_PATH)
LoadSites == {"WalmartAgent.__aenter__", "refresh_session_headful", "WalmartResumeSession.start"}

\* browser.new_context(**ctx_kwargs) with the session file present
load_session ==
    /\ call.pc = "called"
    /\ call.fn \in LoadSites
    /\ call' = [call EXCEPT !.pc = "returned", !.ret = _clean_session(call.arg)]
    /\ UNCHANGED <<jobs, items, callbacks, running, resume_sessions, spawning, worker,
                   exec, ev, agent, session_file>>

\* ------------------------------------------------------ lines to parse
Sp == <<" ">>

NamePool == <<<<"m", "i", "l", "k">>, <<"t", "h", "u", "n", "d", "e", "r">>, <<"b", "a", "g", "s">>>>

Names == {NamePool[k] : k \in 1..MaxNames}

\* A typed number: its characters and the integer it writes
QtyPool == <<[text |-> <<"0">>, n |-> 0], [text |-> <<"2">>, n |-> 2],
             [text |-> <<"1", "2">>, n |-> 12]>>

Qtys == {QtyPool[k] : k \in 1..MaxQtys}

\* A typed amount: its characters and the number it writes
AmountPool == <<[text |-> <<"8">>, value |-> [units |-> 8, decimals |-> <<>>]],
                [text |-> <<"3", ".", "5", "0">>, value |-> [units |-> 3, decimals |-> <<"5">>]],
                [text |-> <<"1", "0">>, value |-> [units |-> 10, decimals |-> <<>>]]>>

Amounts == {AmountPool[k] : k \in 1..MaxAmounts}

NoQty == [text |-> <<>>, n |-> 1]

NoAmount == [text |-> <<>>, value |-> [units |-> 0, decimals |-> <<>>]]

\* The price phrases of _PRICE_PAT's comment up to the amount, in three cases
PricePhrases ==
    {<<"m", "a", "x", " ", "$">>,
     <<"M", "A", "X", " ", "$">>,
     <<"M", "a", "x", " ", "$">>,
     <<"u", "n", "d", "e", "r", " ", "$">>,
     <<"U", "N", "D", "E", "R", " ", "$">>,
     <<"U", "n", "d", "e", "r", " ", "$">>,
     <<"u", "p", " ", "t", "o", " ", "$">>,
     <<"U", "P", " ", "T", "O", " ", "$">>,
     <<"U", "p", " ", "T", "o", " ", "$">>,
     <<"a", "t", " ", "m", "o", "s", "t", " ", "$">>,
     <<"A", "T", " ", "M", "O", "S", "T", " ", "$">>,
     <<"A", "t", " ", "M", "o", "s", "t", " ", "$">>}

Line(form, raw, name, word, q, a) ==
    [form |-> form, raw |-> raw, name |-> name, word |-> word, qty |-> q, amount |-> a]

\* "<name> <unit word> <N>"
UnitLines ==
    {Line("unit", nm \o Sp \o w \o Sp \o q.text, nm, w, q, NoAmount) :
        nm \in Names, w \in _UNIT_WORDS, q \in Qtys}

\* "<name> <N>"
BareLines == {Line("bare", nm \o Sp \o q.text, nm, <<>>, q, NoAmount) : nm \in Names, q \in Qtys}

\* "<N>x <name>" and "<N> x <name>"
PrefixLines ==
    {Line("prefix", q.text \o gap \o <<x>> \o Sp \o nm, nm, <<>>, q, NoAmount) :
        nm \in Names, q \in Qtys, x \in XChars, gap \in {<<>>, Sp}}

\* "<name> x<N>"
SuffixLines ==
    {Line("suffix", nm \o Sp \o <<x>> \o q.text, nm, <<>>, q, NoAmount) :
        nm \in Names, q \in Qtys, x \in XChars}

\* "<name> (max $A)", "<name> under $A", "(up to $A) <name>", ...
PriceLines ==
    UNION {{Line("price", nm \o Sp \o op \o ph \o a.text \o cl, nm, <<>>, NoQty, a),
            Line("price", op \o ph \o a.text \o cl \o Sp \o nm, nm, <<>>, NoQty, a)} :
        nm \in Names, ph \in PricePhrases, a \in Amounts,
        op \in {<<"(">>}, cl \in {<<")">>}}
    \cup
    UNION {{Line("price", nm \o Sp \o ph \o a.text, nm, <<>>, NoQty, a),
            Line("price", ph \o a.text \o Sp \o nm, nm, <<>>, NoQty, a)} :
        nm \in Names, ph \in PricePhrases, a \in Amounts}

Lines == UnitLines \cup BareLines \cup PrefixLines \cup SuffixLines \cup PriceLines

\* parse_item(raw) on a typed line
call_parse_item ==
    /\ call.pc = "called"
    /\ call.fn = "parse_item"
    /\ call' = [call EXCEPT !.pc = "returned", !.ret = parse_item(call.arg.raw)]
    /\ UNCHANGED <<jobs, items, callbacks, running, resume_sessions, spawning, worker,
                   exec, ev, agent, session_file>>

\* ---------------------------------------------------------- _ai_parse_items
\* Raw strings the AI tool hands over
RawPool == {<<"m", "i", "l", "k", " ", "x", "2">>, <<"e", "g", "g", "s", ",", " ", "b", "r", "e", "a", "d", " ", "0">>, <<"r", "i", "c", "e", " ", "m", "a", "x", " ", "$", ".">>}

RawLists == UNION {[1..n -> RawPool] : n \in 0..MaxRaw}

\* One object of the AI parser's JSON reply. qty: a number (in tenths), no
\* key, or a string that is not a number; max_price: null, or for one of the
\* objects a string that is not a number.
AIObjects ==
    {[name |-> nm, qty |-> q, max_price |-> "null"] :
        nm \in {<<"e", "g", "g", "s">>, Sp},
        q \in {[k |-> "num", tenths |-> t] : t \in {-20, 0, 25}}
              \cup {[k |-> c, tenths |-> 0] : c \in {"missing", "text"}}}
    \cup {[name |-> <<"e", "g", "g", "s">>, qty |-> [k |-> "num", tenths |-> 25],
           max_price |-> "text"]}

\* messages.create raises, json.loads raises, or the reply is a list of objects
AIParseReplies ==
    {[kind |-> c, objects |-> <<>>] : c \in {"api_error", "bad_json"}}
    \cup {[kind |-> "json", objects |-> os] : os \in UNION {[1..n -> AIObjects] : n \in 0..MaxReply}}

\* int(x) of a float in tenths: towards zero
Trunc(tenths) == IF tenths >= 0 THEN tenths \div 10 ELSE -((-tenths) \div 10)

\* float(item.get("qty", 1)) and float(max_p) raise on text
Raises(o) == o.qty.k = "text" \/ o.max_price = "text"

\* The loop over parsed: the result so far and whether an exception ended it.
\* An object with a blank name is skipped before its numbers are read.
RECURSIVE ai_loop(_)
ai_loop(os) ==
    IF os = <<>> THEN [exc |-> FALSE, result |-> <<>>]
    ELSE IF strip(Head(os).name, Whitespace) = <<>> THEN ai_loop(Tail(os))
    ELSE IF Raises(Head(os)) THEN [exc |-> TRUE, result |-> <<>>]
    ELSE [exc |-> ai_loop(Tail(os)).exc,
          result |-> <<[exc |-> Null,
                        name |-> strip(Head(os).name, Whitespace),
                        qty |-> Max(1, IF Head(os).qty.k = "missing" THEN 1
                                       ELSE Trunc(Head(os).qty.tenths)),
                        max_price |-> <<>>,
                        brand |-> <<>>]>> \o ai_loop(Tail(os)).result]

\* result = []; for raw in raw_items: result.extend(parse_items(raw)). An
\* exception of parse_items leaves the function: the list then ends with the
\* item that carries it.
RECURSIVE regex_fallback(_)
regex_fallback(raw_items) ==
    IF raw_items = <<>> THEN <<>>
    ELSE With(parse_items(Head(raw_items)), LAMBDA first :
         IF first # <<>> /\ first[Len(first)].exc # Null THEN first
         ELSE first \o regex_fallback(Tail(raw_items)))

\* The except clause keeping what the loop had built
_ai_parse_items_keeping(raw_items, reply) ==
    IF raw_items = <<>> THEN <<>>
    ELSE IF reply.kind # "json" THEN regex_fallback(raw_items)
    ELSE ai_loop(reply.objects).result \o
         (IF ai_loop(reply.objects).exc THEN regex_fallback(raw_items) ELSE <<>>)

\* _ai_parse_items(raw_items), reply being what the AI parser answers
_ai_parse_items(raw_items, reply) ==
    IF raw_items = <<>> THEN <<>>
    ELSE IF reply.kind # "json" \/ ai_loop(reply.objects).exc THEN regex_fallback(raw_items)
    ELSE ai_loop(reply.objects).result

call_ai_parse_items ==
    /\ call.pc = "called"
    /\ call.fn = "_ai_parse_items"
    /\ call' = [call EXCEPT !.pc = "returned",
                            !.ret = _ai_parse_items(call.arg.raw_items, call.arg.reply)]
    /\ UNCHANGED <<jobs, items, callbacks, running, resume_sessions, spawning, worker,
                   exec, ev, agent, session_file>>

\* ------------------------------------------- _optimize_search_queries calls
RECURSIVE ItemLists(_)
ItemLists(n) ==
    IF n = 0 THEN {<<>>}
    ELSE ItemLists(n - 1)
         \cup {Append(its, ItemPool[k]) : its \in ItemLists(n - 1), k \in 1..Len(ItemPool)}

call_optimize_search_queries ==
    /\ call.pc = "called"
    /\ call.fn = "_optimize_search_queries"
    /\ call' = [call EXCEPT !.pc = "returned",
                            !.ret = _optimize_search_queries(call.arg.items, call.arg.reply)]
    /\ UNCHANGED <<jobs, items, callbacks, running, resume_sessions, spawning, worker,
                   exec, ev, agent, session_file>>

\* ------------------------------------------------------- product selection
\* A product of _extract_search_results: title (its words), brand, price
ProductKinds ==
    {[title |-> t.title, brand |-> t.brand, price |-> pr] :
        t \in {[title |-> <<"indomie", "noodles">>, brand |-> ""],
               [title |-> <<"noodles">>, brand |-> "indomie"],
               [title |-> <<"noodles">>, brand |-> "mr noodles"]},
        pr \in {1, 3}}

ProductLists == UNION {[1..n -> ProductKinds] : n \in 0..MaxProducts}

\* The brand and max_price search_and_add is called with (<<>>: None)
Wanted == {[brand |-> b, max_price |-> mp] : b \in {<<>>, <<"indomie">>}, mp \in {<<>>, <<2>>}}

\* What the selection model answers: the call raises, or the text is an
\* integer (indices count from 0, -1 is its "no product qualifies")
SelectReplies == {[kind |-> "error", idx |-> 0]} \cup {[kind |-> "int", idx |-> n] : n \in -1..MaxProducts}

\* The pages: whether the add-to-cart of the selected product's page works,
\* the product whose add-to-cart button _try_add_from_page finds afterwards,
\* the product the page's first product link leads to and adds (<<>>: none)
Pages(products) ==
    {[product_add |-> a, button |-> b, link |-> l] :
        a \in BOOLEAN,
        b \in {<<>>} \cup {<<n>> : n \in 0..Len(products) - 1},
        l \in {<<>>} \cup {<<n>> : n \in (0..Len(products) - 1) \cap {0}}}

\* _ai_select_product(products, ...): the index the model answered when it
\* is one of the list, else None
_ai_select_product(products, reply) ==
    IF products = <<>> THEN <<>>
    ELSE IF reply.kind = "int" /\ 0 <= reply.idx /\ reply.idx < Len(products) THEN <<reply.idx>>
    ELSE <<>>

\* search_and_add from the search results on: the index of the product added
\* to the cart (<<>>: none, search_and_add returns False) and the step that
\* added it. After a failed add on the selected product's page, Fallback 1
\* presses that page's button again.
select_and_add(products, reply, page) ==
    LET selected_idx == _ai_select_product(products, reply) IN
    IF selected_idx # <<>> /\ page.product_add
    THEN [selected_idx |-> selected_idx, added |-> selected_idx, by |-> "ai"]
    ELSE IF page.button # <<>>
    THEN [selected_idx |-> selected_idx,
          added |-> IF selected_idx # <<>> THEN selected_idx ELSE page.button,
          by |-> "fallback 1"]
    ELSE IF page.link # <<>>
    THEN [selected_idx |-> selected_idx, added |-> page.link, by |-> "fallback 2"]
    ELSE [selected_idx |-> selected_idx, added |-> <<>>, by |-> "none"]

call_search_and_add ==
    /\ call.pc = "called"
    /\ call.fn = "search_and_add"
    /\ call' = [call EXCEPT !.pc = "returned",
                            !.ret = select_and_add(call.arg.products, call.arg.reply,
                                                   call.arg.page)]
    /\ UNCHANGED <<jobs, items, callbacks, running, resume_sessions, spawning, worker,
                   exec, ev, agent, session_file>>

\* ------------------------------------------------------------ specification
\* Statuses of the rows the jobs table holds when the process starts.
PersistedStatuses == {"pending", "needs_user"}

PersistedRow(status) ==
    JobRow(status, Null, IF status = "needs_user" THEN "Walmart needs verification" ELSE Null)

Init ==
    /\ \E n \in 0..MaxJobs : \E st \in [1..n -> PersistedStatuses] :
         jobs = [j \in JobIds |-> IF j <= n THEN PersistedRow(st[j]) ELSE AbsentRow]
    /\ items = <<>>
    /\ callbacks = [j \in JobIds |-> Null]
    /\ running = {}
    /\ resume_sessions = {}
    /\ spawning = [j \in JobIds |-> Null]
    /\ worker = [pc |-> "sleep", rows |-> <<>>]
    /\ exec = [j \in JobIds |-> [o \in Origins |-> IdleExec]]
    /\ ev = NoEv
    /\ agent = IdleAgent
    /\ call = NoCall
    /\ session_file = 0

Next ==
    \/ \E j \in JobIds, o \in Origins : Start(j, o)
    \/ \E j \in JobIds, o \in Origins : Pass(j, o)
    \/ \E j \in JobIds, o \in Origins : RefreshLaunch(j, o)
    \/ \E j \in JobIds, o \in Origins : Refresh(j, o)
    \/ WorkerPoll
    \/ WorkerDispatch
    \/ add_command
    \/ clear_command
    \/ \E via \in {"chat", "api"} : create_job_request(via)
    \/ \E j \in JobIds : start_task(j)
    \/ \E j \in JobIds : resume_command(j)
    \/ \E j \in JobIds : continue_command(j)
    \/ link_done_command
    \/ shutdown

Spec == Init /\ [][Next]_vars

\* worker_loop keeps polling (await asyncio.sleep(3) returns, the SELECT
\* succeeds again and again) and runs its for loop over the rows it got.
Fairness ==
    /\ WF_vars(WorkerPoll /\ worker'.pc = "polled")
    /\ WF_vars(WorkerDispatch)

LiveSpec == Spec /\ Fairness

\* The event loop runs every task that asyncio.create_task has created: the
\* first awaits of process_job (update_job(job_id, "running"), get_chat,
\* get_items) return.
TaskFairness == \A j \in JobIds, o \in Origins : WF_vars(Start(j, o))

TaskLiveSpec == LiveSpec /\ TaskFairness

\* A /run job in its first or second pass, at the build_cart call on each
\* list the pass can be run on.
PassInit ==
    /\ jobs = [j \in JobIds |-> IF j = 1 THEN JobRow("running", Null, Null) ELSE AbsentRow]
    /\ items = SubSeq(ItemPool, 1, MaxItems)
    /\ callbacks = [j \in JobIds |-> IF j = 1 THEN "on_done" ELSE Null]
    /\ running = {}
    /\ resume_sessions = {}
    /\ spawning = [j \in JobIds |-> Null]
    /\ worker = [pc |-> "sleep", rows |-> <<>>]
    /\ \E attempt \in 1..2 :
         exec = [j \in JobIds |-> [o \in Origins |->
                    IF j = 1 /\ o = "direct"
                    THEN [pc |-> "pass", attempt |-> attempt, items |-> items,
                          last_screenshot |-> Null]
                    ELSE IdleExec]]
    /\ ev = NoEv
    /\ \E its \in RunLists : agent = NewAgent(its)
    /\ call = NoCall
    /\ session_file = 0

PassNext ==
    \/ warm_up
    \/ search_and_add
    \/ cart_page
    \/ \E j \in JobIds, o \in Origins : build_cart_ends(j, o)
    \/ \E j \in JobIds, o \in Origins : RefreshLaunch(j, o)
    \/ \E j \in JobIds, o \in Origins : Refresh(j, o)
    \/ \E j \in JobIds, o \in Origins : build_cart_again(j, o)

PassSpec == PassInit /\ [][PassNext]_vars

\* One call of a function on each of its bounded inputs.
CallInputs(c) ==
    \/ \E site \in LoadSites, data \in SessionFiles : c = Called(site, data)
    \/ \E ln \in Lines : c = Called("parse_item", ln)
    \/ \E rs \in RawLists, r \in AIParseReplies :
          c = Called("_ai_parse_items", [raw_items |-> rs, reply |-> r])
    \/ \E ps \in ProductLists, w \in Wanted, r \in SelectReplies :
          \E pg \in Pages(ps) :
             c = Called("search_and_add", [products |-> ps, item |-> w, reply |-> r, page |-> pg])
    \/ \E its \in ItemLists(MaxItems), r \in AIReplies(MaxItems) :
          c = Called("_optimize_search_queries", [items |-> its, reply |-> r])

CallInit ==
    /\ jobs = [j \in JobIds |-> AbsentRow]
    /\ items = <<>>
    /\ callbacks = [j \in JobIds |-> Null]
    /\ running = {}
    /\ resume_sessions = {}
    /\ spawning = [j \in JobIds |-> Null]
    /\ worker = [pc |-> "sleep", rows |-> <<>>]
    /\ exec = [j \in JobIds |-> [o \in Origins |-> IdleExec]]
    /\ ev = NoEv
    /\ agent = IdleAgent
    /\ CallInputs(call)
    /\ session_file = 0

CallNext ==
    \/ load_session
    \/ call_parse_item
    \/ call_ai_parse_items
    \/ call_search_and_add
    \/ call_optimize_search_queries

CallSpec == CallInit /\ [][CallNext]_vars


\* ===================================================================== claims

\* C1: at most one execution of process_job is in progress for a job id,
\* however the executions were started.
C1_AtMostOneExecution == \A j \in JobIds : Cardinality(TasksOf(j)) <= 1

\* C2: a schedule_job call for a job id whose earlier schedule_job task has
\* not finished starts no task: the running task is left as it is and stays
\* the only one schedule_job has started for that id.
C2_SecondCallStartsNoTask ==
    [][\A j \in JobIds :
          (worker.pc = "polled" /\ ev'.type = "dispatch"
             /\ j \in Range(worker.rows) /\ Live(j, "sched"))
          => (exec'[j]["sched"] = exec[j]["sched"] /\ j \in running')]_vars

\* A poll that returned job j while its task was past its first step has been
\* dispatched, and the task is still where it was.
C2_Witness ==
    /\ ev.type = "dispatch"
    /\ \E j \in ev.skipped : exec[j]["sched"].pc \in {"pass", "refresh"}

StatusEdges ==
    {<<"pending", "running">>, <<"running", "done">>, <<"running", "failed">>,
     <<"running", "needs_user">>, <<"needs_user", "pending">>}

\* C3: every change of a job's persisted status follows one of the edges
\* pending->running, running->done, running->failed, running->needs_user,
\* needs_user->pending (so done and failed are never left).
C3_StatusEdges ==
    [][\A j \in JobIds :
          (jobs[j].status # "absent" /\ jobs'[j].status # jobs[j].status)
          => <<jobs[j].status, jobs'[j].status>> \in StatusEdges]_vars

\* C4: when a run of a job ends, the callback registered for the job has been
\* taken out of the registry and invoked, after the final status was written.
C4_CallbackFiredOnce ==
    ev.type = "end" =>
        /\ callbacks[ev.job] = Null
        /\ ev.cb # Null => jobs[ev.job].status = ev.args.status

\* C5: no exception leaves process_job, and a run that marked the job running
\* ends with the job persisted as done, failed or needs_user.
C5_NoExceptionEscapes ==
    ev.type = "end" =>
        /\ ev.outcome = "returned"
        /\ jobs[ev.job].status \in {"done", "failed", "needs_user"}

\* C6: first pass Challenge, refresh succeeded, second pass Challenge: the
\* persisted status becomes needs_user and the callback receives needs_user
\* with the screenshot path of the second pass.
C6_ChallengeTwiceNeedsUser ==
    (ev.type = "end" /\ ev.attempt = 2 /\ ev.after = "challenge") =>
        /\ jobs[ev.job].status = "needs_user"
        /\ ev.cb # Null => ev.args.status = "needs_user"

\* C7: first pass Challenge, refresh succeeded, second pass completed: the job
\* is persisted as done with a result URL, and the callback registered for it
\* receives done, the cart URL, and added/failed lists that together hold one
\* label per item of the list.
C7_RecoveredPassDone ==
    (ev.type = "end" /\ ev.attempt = 2 /\ ev.after = "return") =>
        /\ ev.outcome = "returned"
        /\ jobs[ev.job].status = "done"
        /\ jobs[ev.job].result_url # Null
        /\ ev.cb # Null =>
             /\ ev.args.status = "done"
             /\ ev.args.cart_url = jobs[ev.job].result_url
             /\ ev.args.error = Null
             /\ Len(ev.args.result.added) + Len(ev.args.result.failed) = Len(ev.items)

\* A run whose second pass completed, with an item added and an item failed,
\* has delivered its callback.
C7_Witness ==
    /\ ev.type = "end" /\ ev.attempt = 2 /\ ev.after = "return"
    /\ ev.cb # Null
    /\ ev.args.result.added # <<>>
    /\ ev.args.result.failed # <<>>

\* C8: a cart build that raises anything but a Challenge leaves the job
\* persisted as failed with the exception text, and the callback receives
\* failed with that text.
C8_ErrorFailsJob ==
    (ev.type = "end" /\ ev.after = "error") =>
        /\ jobs[ev.job].status = "failed"
        /\ jobs[ev.job].error = "exc"
        /\ ev.cb # Null => (ev.args.status = "failed" /\ ev.args.error = "exc")

\* C9: when the browser session cannot be opened, the job becomes failed and
\* the callback is delivered with failed.
C9_SessionFailureFailsJob ==
    (ev.type = "end" /\ ev.after = "aenter") =>
        /\ jobs[ev.job].status = "failed"
        /\ callbacks[ev.job] = Null

C11_AbandonedJobRunsAgain ==
    \/ []<><<shutdown>>_vars
    \/ \A j \in JobIds :
          (ev.type = "restart" /\ j \in ev.abandoned
              /\ jobs[j].status \notin {"done", "failed"})
          ~> Live(j, "sched")

\* C12: a run that finds the item list empty ends with the job failed with
\* error "No items in list", delivers failed with empty added and failed lists
\* to the callback, and has opened no WalmartAgent session.
C12_EmptyListFails ==
    (ev.type = "end" /\ ev.after = "noitems") =>
        /\ ev.outcome = "returned"
        /\ jobs[ev.job].status = "failed"
        /\ jobs[ev.job].error = "No items in list"
        /\ ev.entered = 0
        /\ ev.cb # Null =>
             /\ ev.args.status = "failed"
             /\ ev.args.error = "No items in list"
             /\ ev.args.result.added = <<>>
             /\ ev.args.result.failed = <<>>

\* A /run job whose list was cleared before the run read it has ended.
C12_Witness == ev.type = "end" /\ ev.after = "noitems" /\ ev.cb # Null

\* C13: while a run that found the item list empty is under way, the job's
\* persisted status is not running (it goes from pending straight to failed).
C13_EmptyListNeverRunning ==
    \A j \in JobIds, o \in Origins :
        (exec[j][o].pc = "pass" /\ exec[j][o].items = <<>>) => jobs[j].status # "running"

\* C18: a done row has a result URL, a failed row has its error text, a
\* needs_user row has its next-step message.
C18_StatusCarriesField ==
    \A j \in JobIds :
        /\ jobs[j].status = "done" => jobs[j].result_url # Null
        /\ jobs[j].status = "failed" => jobs[j].error # Null
        /\ jobs[j].status = "needs_user" => jobs[j].error # Null

\* A job is stored as done with its cart URL.
C18_Witness == \E j \in JobIds : jobs[j].status = "done" /\ jobs[j].result_url = "cart"

\* C19: the tasks of a job hold at most one browser open between them.
C19_OneBrowserPerJob ==
    \A j \in JobIds :
        Cardinality(open_browsers(exec[j]["sched"]))
          + Cardinality(open_browsers(exec[j]["direct"])) <= 1

\* C20: a job row is created only for a chat whose item list is not empty at
\* the request; a request on an empty list is answered as such and leaves the
\* jobs table, and everything that would start a task, as it was.
C20_NoJobForEmptyList ==
    [][/\ \A j \in JobIds :
            (jobs[j].status = "absent" /\ jobs'[j].status # "absent") => items # <<>>
       /\ ev'.type = "empty_list" =>
            (items = <<>> /\ jobs' = jobs /\ spawning' = spawning /\ exec' = exec)]_vars

\* POST /jobs on an empty list has been answered, with a row of an earlier
\* request in the table.
C20_Witness ==
    /\ ev.type = "empty_list"
    /\ ev.via = "api"
    /\ \E j \in JobIds : jobs[j].status # "absent"

\* ------------------------------------------------- claims on one build_cart
LogIdx == 1..Len(agent.log)

IsCall(n) == agent.log[n].op = "search_and_add"

IsRecord(n) == agent.log[n].op \in {"added", "failed"}

CallsFor(k) == {n \in LogIdx : IsCall(n) /\ agent.log[n].item = k}

\* process_job has handled the outcome of the pass in its
\* except BotChallengeError clause: it is at the silent refresh, or at the
\* second pass that only a refresh leads to, or it has ended from the clause.
ChallengeClauseTaken ==
    \E j \in JobIds, o \in Origins :
        \/ exec[j][o].pc \in {"refresh", "refreshing"}
        \/ exec[j][o].pc = "pass" /\ exec[j][o].attempt = 2
        \/ ev.type = "end" /\ ev.job = j /\ ev.origin = o /\ ev.after = "challenge"

\* C14: a Challenge raised by a search_and_add call is the last thing the
\* pass does: no call follows it, for the same item or a later one, nothing
\* is recorded after it, and build_cart raises the Challenge to process_job,
\* which handles it as a Challenge.
C14_ChallengeAbortsPass ==
    \A n \in LogIdx :
        agent.log[n].out = "challenge" =>
            /\ n = Len(agent.log)
            /\ agent.pc \in {"raised", "handled"}
            /\ agent.result.kind = "challenge"
            /\ agent.pc = "handled" => ChallengeClauseTaken

\* A Challenge on an attempt that had retries left, on an item that was not
\* the last of the list.
C14_Witness ==
    /\ agent.pc = "handled"
    /\ agent.log # <<>>
    /\ LET e == agent.log[Len(agent.log)] IN
         /\ e.out = "challenge"
         /\ e.attempt < max_attempts
         /\ e.item < Len(agent.items)

\* C15: within a pass an item gets at most 3 search_and_add calls, none after
\* its first successful one, and it is recorded as failed only after 3 calls
\* that all failed.
C15_AtMostThreeAttempts ==
    \A k \in 1..Len(agent.items) :
        /\ Cardinality(CallsFor(k)) <= 3
        /\ \A n \in CallsFor(k) :
             /\ agent.log[n].attempt = Cardinality({m \in CallsFor(k) : m <= n})
             /\ agent.log[n].out = "ok" => \A m \in CallsFor(k) : m <= n
        /\ \A n \in LogIdx :
             (agent.log[n].op = "failed" /\ agent.log[n].item = k) =>
                 /\ Cardinality(CallsFor(k)) = 3
                 /\ \A m \in CallsFor(k) : m < n /\ agent.log[m].out = "fail"

\* A pass that recorded one item as failed and added another on a retry.
C15_Witness ==
    /\ \E n \in LogIdx : agent.log[n].op = "failed"
    /\ \E n \in LogIdx : IsCall(n) /\ agent.log[n].out = "ok" /\ agent.log[n].attempt = 2

\* Item k has been recorded as failed.
RecordedFailed(n) == agent.log[n].op = "failed"

\* The failed record n is in the failed list, and the pass went on: with the
\* first call for the next item, or to the cart page after the last one.
FailedItemKept(n) ==
    /\ \E m \in 1..Len(agent.failed) : agent.failed[m] = agent.log[n].label
    /\ IF n < Len(agent.log)
       THEN /\ IsCall(n + 1)
            /\ agent.log[n + 1].item = agent.log[n].item + 1
            /\ agent.log[n + 1].attempt = 1
       ELSE IF agent.log[n].item < Len(agent.items)
       THEN agent.pc = "item" /\ agent.i = agent.log[n].item + 1 /\ agent.attempt = 1
       ELSE agent.pc \in {"cart", "returned", "raised", "handled"}

\* The job of the pass is done and its callback got a non-empty failed list.
JobDoneWithFailedList ==
    /\ ev.type = "end"
    /\ jobs[ev.job].status = "done"
    /\ ev.args.status = "done"
    /\ ev.args.result.failed # <<>>

\* C16 as stated: an item whose calls all failed is recorded as failed and the
\* pass goes on with the next item; a pass with such an item and without a
\* Challenge ends with the job done and a non-empty failed list.
C16_FailedItemJobDone ==
    /\ \A n \in LogIdx : RecordedFailed(n) => FailedItemKept(n)
    /\ (agent.pc = "handled" /\ (\E n \in LogIdx : RecordedFailed(n))
          /\ agent.result.kind # "challenge") => JobDoneWithFailedList

\* C16, amended: an item whose calls all failed is recorded as failed and the
\* pass goes on with the next item; when build_cart then returns (no Challenge
\* and no other exception, cart page included), the job ends done and the
\* callback gets a non-empty failed list.
C16_FailedItemPassReturns ==
    /\ \A n \in LogIdx : RecordedFailed(n) => FailedItemKept(n)
    /\ (agent.pc = "handled" /\ (\E n \in LogIdx : RecordedFailed(n))
          /\ agent.result.kind = "return") => JobDoneWithFailedList

\* The first item failed all its calls, the second was added, the job is done.
C16_Witness ==
    /\ agent.pc = "handled"
    /\ agent.result.kind = "return"
    /\ \E n \in LogIdx : RecordedFailed(n) /\ agent.log[n].item = 1
    /\ agent.added # <<>>
    /\ JobDoneWithFailedList

\* C17: the k-th item the pass works on is the k-th row of the list, and the
\* first call for an item is made only after the item before it has been
\* recorded as added or failed.
C17_ItemsInListOrder ==
    /\ \A n \in LogIdx :
         /\ agent.log[n].label = Label(agent.items[agent.log[n].item])
         /\ \A m \in LogIdx : m < n => agent.log[m].item <= agent.log[n].item
    /\ \A n \in LogIdx :
         (IsCall(n) /\ agent.log[n].item > 1) =>
             \E m \in LogIdx : /\ m < n
                               /\ IsRecord(m)
                               /\ agent.log[m].item = agent.log[n].item - 1

\* A returned pass over a list of at least two rows.
C17_Witness ==
    /\ agent.pc \in {"returned", "handled"}
    /\ Len(agent.items) >= 2
    /\ \A k \in 1..Len(agent.items) : CallsFor(k) # {}

\* Every call of the pass was made for an item that ended up added, and the
\* cart page loaded: the browser engine added all the items.
AllItemsAdded ==
    /\ agent.pc = "handled"
    /\ agent.result.kind = "return"
    /\ Len(agent.added) = Len(agent.items)

\* The names of the stored rows, in list order.
StoredNames(rows) == [k \in 1..Len(rows) |-> <<rows[k].name>>]

\* C21: for the stored list [milk qty 2, eggs qty 1 max price 5] with every
\* item added, the job is done and the callback gets the stored names in list
\* order as added, an empty failed list and a cart URL.
C21_EndToEndAdded ==
    AllItemsAdded =>
        /\ ev.type = "end"
        /\ jobs[ev.job].status = "done"
        /\ ev.args.status = "done"
        /\ ev.args.cart_url # Null
        /\ ev.args.result.failed = <<>>
        /\ ev.args.result.added = StoredNames(ev.items)


\* ------------------------------------------------- claims on function calls
\* The positions of the file's cookies that are not tracking cookies.
KeptPositions(cs) == {k \in 1..Len(cs) : cs[k].name \notin _TRACKING_COOKIES}

\* The n-th of these positions.
NthKept(cs, n) ==
    CHOOSE k \in KeptPositions(cs) : Cardinality({m \in KeptPositions(cs) : m <= k}) = n

\* C22: the session state handed to a browser context has no cookie with a
\* tracking name, and has every other cookie of the file, unchanged and in the
\* order of the file.
C22_TrackingCookiesStripped ==
    (call.pc = "returned" /\ call.fn \in LoadSites /\ "cookies" \in DOMAIN call.arg) =>
        /\ \A k \in 1..Len(call.ret.cookies) : call.ret.cookies[k].name \notin _TRACKING_COOKIES
        /\ Len(call.ret.cookies) = Cardinality(KeptPositions(call.arg.cookies))
        /\ \A n \in 1..Len(call.ret.cookies) :
             call.ret.cookies[n] = call.arg.cookies[NthKept(call.arg.cookies, n)]

\* A file with a tracking cookie between two others has been loaded.
C22_Witness ==
    /\ call.pc = "returned"
    /\ call.fn \in LoadSites
    /\ "cookies" \in DOMAIN call.arg
    /\ Len(call.arg.cookies) = 3
    /\ call.arg.cookies[2].name \in _TRACKING_COOKIES
    /\ Len(call.ret.cookies) = 2

Returned(fn) == call.pc = "returned" /\ call.fn = fn

HasDigit(s) == \E k \in 1..Len(s) : IsDigit(s[k])

\* C23: for a line ending in a unit word of _UNIT_WORDS and an integer N > 1,
\* parse_item returns quantity 1 and the name still ends with the integer; for a
\* line ending in a word outside the set and N, it returns quantity N.
C23_UnitWordKeepsNumber ==
    (Returned("parse_item") /\ call.arg.qty.n > 1) =>
        /\ call.arg.form = "unit" =>
             /\ call.ret.qty = 1
             /\ call.ret.name = call.arg.name \o Sp \o call.arg.word \o Sp \o call.arg.qty.text
        /\ (call.arg.form = "bare" /\ call.arg.name \notin _UNIT_WORDS) =>
             call.ret.qty = call.arg.qty.n

\* C24: for "<N>x <name>", "<name> x<N>" and "<name> <N>" with a name that does
\* not end in a unit word, parse_item returns quantity N and a name without
\* the quantity.
C24_QuantityForms ==
    (/\ Returned("parse_item")
     /\ call.arg.form \in {"prefix", "suffix", "bare"}
     /\ call.arg.name \notin _UNIT_WORDS
     /\ call.arg.qty.n >= 1) =>
        /\ call.ret.exc = Null
        /\ call.ret.qty = call.arg.qty.n
        /\ ~HasDigit(call.ret.name)

NonBlank(o) == \E k \in 1..Len(o.name) : o.name[k] # " "

\* The AI parser fails: no reply, a reply that is not JSON, or an object it
\* keeps whose number is not a number.
AIParserFails(reply) ==
    \/ reply.kind # "json"
    \/ \E k \in 1..Len(reply.objects) :
          /\ NonBlank(reply.objects[k])
          /\ reply.objects[k].qty.k = "text" \/ reply.objects[k].max_price = "text"

\* C25: every item parse_item and _ai_parse_items return has quantity >= 1,
\* and a line or an AI object with a zero or negative quantity still gives
\* its item.
C25_QuantityAtLeastOne ==
    /\ Returned("parse_item") =>
         /\ call.ret.exc = Null
         /\ call.ret.qty >= 1
         /\ call.ret.name # <<>>
    /\ Returned("_ai_parse_items") =>
         /\ \A k \in 1..Len(call.ret) : call.ret[k].exc = Null => call.ret[k].qty >= 1
         /\ (call.arg.raw_items # <<>> /\ ~AIParserFails(call.arg.reply)) =>
               Len(call.ret) = Cardinality({k \in 1..Len(call.arg.reply.objects) :
                                               NonBlank(call.arg.reply.objects[k])})

\* A line with the literal 0 as quantity has given an item of quantity 1.
C25_Witness ==
    /\ Returned("parse_item")
    /\ call.arg.form = "suffix"
    /\ call.arg.qty.n = 0
    /\ call.ret.qty = 1
    /\ call.ret.name = call.arg.name

\* C26: for each amount A and each price phrase, in lower, upper or title
\* case and with or without parentheses, parse_item returns max_price A and a
\* name without the phrase.
C26_PricePhrases ==
    (Returned("parse_item") /\ call.arg.form = "price") =>
        /\ call.ret.exc = Null
        /\ call.ret.max_price = <<call.arg.amount.value>>
        /\ call.ret.name = call.arg.name

\* "UP TO $3.50" between parentheses after the name has been parsed.
C26_Witness ==
    /\ Returned("parse_item")
    /\ call.arg.form = "price"
    /\ call.arg.raw[Len(call.arg.raw)] = ")"
    /\ \E k \in 1..Len(call.arg.raw) - 1 : call.arg.raw[k] = "U" /\ call.arg.raw[k + 1] = "P"
    /\ call.ret.max_price = <<[units |-> 3, decimals |-> <<"5">>]>>
    /\ call.ret.name = call.arg.name

RECURSIVE Flatten(_)
Flatten(lists) == IF lists = <<>> THEN <<>> ELSE Head(lists) \o Flatten(Tail(lists))

\* parse_items returns on each of the raw strings.
RegexParses(raw_items) ==
    \A k \in 1..Len(raw_items) :
        \A n \in 1..Len(parse_items(raw_items[k])) : parse_items(raw_items[k])[n].exc = Null

BrandMatches(p, brand) == p.brand = brand \/ \E k \in 1..Len(p.title) : p.title[k] = brand

\* The product meets what the item asks for.
Qualifies(p, item) ==
    /\ item.brand # <<>> => BrandMatches(p, item.brand[1])
    /\ item.max_price # <<>> => p.price <= item.max_price[1]

\* The selection model answers by its rules: the index of a product that
\* qualifies, or -1 when there is none.
AnswersByRules(arg) ==
    /\ arg.reply.kind = "int"
    /\ IF \E k \in 1..Len(arg.products) : Qualifies(arg.products[k], arg.item)
       THEN /\ arg.reply.idx \in 0..Len(arg.products) - 1
            /\ Qualifies(arg.products[arg.reply.idx + 1], arg.item)
       ELSE arg.reply.idx = -1

\* C28: when a brand is required and no product of the search results has it
\* in its title or brand, the selection returns None and search_and_add adds
\* no product.
C28_NoBrandMatchNothingAdded ==
    (/\ Returned("search_and_add")
     /\ AnswersByRules(call.arg)
     /\ call.arg.products # <<>>
     /\ call.arg.item.brand # <<>>
     /\ \A k \in 1..Len(call.arg.products) :
           ~BrandMatches(call.arg.products[k], call.arg.item.brand[1])) =>
        /\ call.ret.selected_idx = <<>>
        /\ call.ret.added = <<>>

\* C29: when the item has a max_price, the product search_and_add adds is not
\* priced above it.
C29_AddedWithinCeiling ==
    (/\ Returned("search_and_add")
     /\ AnswersByRules(call.arg)
     /\ call.arg.item.max_price # <<>>
     /\ call.ret.added # <<>>) =>
        call.arg.products[call.ret.added[1] + 1].price <= call.arg.item.max_price[1]

\* ---------------------------------------------------- claims on the refresh
\* C30: a run of process_job makes at most two passes and refreshes the
\* session only after its first pass; when the refresh fails the run ends
\* there, after one pass, with the job needs_user.
C30_OneRefreshThenNeedsUser ==
    /\ \A j \in JobIds, o \in Origins :
         /\ exec[j][o].attempt <= 2
         /\ exec[j][o].pc \in {"refresh", "refreshing"} => exec[j][o].attempt = 1
    /\ (ev.type = "end" /\ ev.after = "challenge" /\ ev.attempt = 1) =>
         /\ ev.entered = 1
         /\ jobs[ev.job].status = "needs_user"

\* ------------------------------------------ claims on build_cart's result
\* The elements of seq at the positions of S, in the order of seq.
RECURSIVE PickFrom(_, _, _)
PickFrom(seq, S, k) ==
    IF k > Len(seq) THEN <<>>
    ELSE (IF k \in S THEN <<seq[k]>> ELSE <<>>) \o PickFrom(seq, S, k + 1)

BuildCartReturned == agent.pc \in {"returned", "handled"} /\ agent.result.kind = "return"

\* C31: when build_cart returns, added and failed split the labels of its
\* input list: each item is in exactly one of them, their lengths add up to
\* the number of items, and each keeps the order of the input.
C31_AddedAndFailedSplitItems ==
    BuildCartReturned =>
        /\ Len(agent.result.added) + Len(agent.result.failed) = Len(agent.items)
        /\ \E A \in SUBSET (1..Len(agent.items)) :
             LET labels == [k \in 1..Len(agent.items) |-> Label(agent.items[k])] IN
             /\ agent.result.added = PickFrom(labels, A, 1)
             /\ agent.result.failed = PickFrom(labels, (1..Len(agent.items)) \ A, 1)

\* build_cart has returned with the first item failed and the second added.
C31_Witness ==
    /\ BuildCartReturned
    /\ Len(agent.items) = 2
    /\ agent.result.failed = <<Label(agent.items[1])>>
    /\ agent.result.added = <<Label(agent.items[2])>>

\* The search_and_add call of item k on the given attempt returned True.
CallReturnedTrue(k, attempt) ==
    \E n \in LogIdx :
        /\ IsCall(n)
        /\ agent.log[n].item = k
        /\ agent.log[n].attempt = attempt
        /\ agent.log[n].out = "ok"

\* C32: a failure inside a best-effort step changes nothing of the pass: the
\* call whose quantity update failed still returned True and its item is
\* recorded as added; a failed location setting does not end the pass; and
\* when build_cart raises, the exception is the one of the page that raised,
\* with a null screenshot when the capture failed.
C32_BestEffortStepsNeverRaise ==
    /\ \A n \in 1..Len(agent.steps) :
         LET e == agent.steps[n] IN
         /\ e.step = "_update_cart_qty" =>
              /\ CallReturnedTrue(e.item, e.attempt)
              /\ \E m \in LogIdx : agent.log[m].op = "added" /\ agent.log[m].item = e.item
              /\ \A m \in LogIdx : ~(agent.log[m].op = "failed" /\ agent.log[m].item = e.item)
         /\ (e.step = "_set_postal_code" /\ agent.pc \in {"raised", "returned", "handled"}) =>
              agent.log # <<>>
    /\ (agent.pc \in {"raised", "handled"} /\ agent.result.kind # "return") =>
         /\ agent.result.kind \in {"challenge", "error"}
         /\ agent.result.screenshot \in {_safe_screenshot(x) : x \in BestEffort}
         /\ (agent.log # <<>> /\ agent.log[Len(agent.log)].out = "challenge") =>
               agent.result.kind = "challenge"

\* The location setting failed, the quantity update of the first item failed
\* on its first call, and the pass returned with that item added.
C32_Witness ==
    /\ BuildCartReturned
    /\ Len(agent.steps) >= 2
    /\ agent.steps[1] = StepEntry("_set_postal_code", 0, 0, "failed")
    /\ agent.steps[2] = StepEntry("_update_cart_qty", 1, 1, "failed")
    /\ agent.result.added # <<>>
    /\ agent.result.added[1] = Label(agent.items[1])

\* ------------------------------------------------ claims on the scheduler
\* C33: when the task started by schedule_job ends, by a return of
\* process_job or by an exception leaving it, its job id is not in _running,
\* and a schedule_job call for that id starts a task.
C33_EndedTaskLeavesRunning ==
    (ev.type = "end" /\ ev.origin = "sched") =>
        /\ ev.job \notin running
        /\ schedule_job([running |-> running, exec |-> exec], ev.job).exec[ev.job]["sched"]
              = NewExec

\* An exception has left process_job in a task of schedule_job.
C33_Witness ==
    /\ ev.type = "end"
    /\ ev.origin = "sched"
    /\ ev.outcome = "escaped"
    /\ ev.job \notin running

\* C34: unless the process is shut down again and again, every pending job
\* is in the end marked running, and worker_loop never leaves its loop,
\* whatever a poll raised.
C34_PendingJobIsDispatched ==
    /\ [](worker.pc \in {"sleep", "polled"})
    /\ \/ []<><<shutdown>>_vars
       \/ \A j \in JobIds : (jobs[j].status = "pending") ~> (jobs[j].status = "running")

\* A job has been marked running by the task that worker_loop started for it.
C34_Witness ==
    \E j \in JobIds :
        /\ jobs[j].status = "running"
        /\ exec[j]["sched"].pc = "pass"
        /\ j \in running

\* ------------------------------------------------- claims on the browsers
\* C35: when process_job ends, by a return or by an exception, every browser
\* it launched for a pass or for the silent refresh has been closed.
C35_EveryBrowserClosed ==
    ev.type = "end" =>
        /\ open_browsers(exec[ev.job][ev.origin]) = {}
        /\ browsers_left_open(ev.exc) = {}

\* ------------------------------------------- claims on the resume protocol
\* C36: a confirm for a job with no open resume session changes no job row
\* and starts no run; a resume browser is opened only for a needs_user job,
\* and a refused resume changes nothing; and a re-run is requested only by a
\* confirm that takes the job's open session away, so an opened session
\* gives at most one re-run.
C36_ResumeSessionUsedOnce ==
    [][ /\ (ev'.type = "continue" /\ ~ev'.session) =>
              /\ jobs' = jobs
              /\ spawning' = spawning
              /\ exec' = exec
              /\ callbacks' = callbacks
        /\ ev'.type = "resume_refused" =>
              /\ jobs' = jobs
              /\ resume_sessions' = resume_sessions
              /\ exec' = exec
        /\ \A j \in JobIds :
              /\ (j \in resume_sessions' /\ j \notin resume_sessions) =>
                    (jobs[j].status = "needs_user" /\ jobs' = jobs)
              /\ (spawning'[j] = "continue" /\ spawning[j] # "continue") =>
                    (j \in resume_sessions /\ j \notin resume_sessions')
      ]_vars

\* A confirm has come for a needs_user job that had no open resume session.
C36_Witness ==
    /\ ev.type = "continue"
    /\ ~ev.session
    /\ ev.was = "needs_user"
    /\ jobs[ev.job].status = "needs_user"
    /\ spawning[ev.job] = Null

\* -------------------------------------------- claims on the session file
\* The step is a refresh_session_headful call of job j's task returning.
RefreshReturns(j, o, refreshed) ==
    /\ exec[j][o].pc \in {"refresh", "refreshing"}
    /\ IF refreshed
       THEN exec'[j][o].pc = "pass" /\ exec'[j][o].attempt = 2
       ELSE exec'[j][o].pc = "idle" /\ ev'.type = "end" /\ ev'.job = j /\ ev'.origin = o

\* C37: the file at SESSION_PATH gets a new content only in a step that is a
\* silent refresh returning True, a confirm that had a resume session, or a
\* /link_done save; a pass of WalmartAgent and a refresh returning False
\* leave it as it is.
C37_SessionFileWriters ==
    [][ /\ session_file' # session_file =>
              \/ \E j \in JobIds, o \in Origins : RefreshReturns(j, o, TRUE)
              \/ /\ ev'.type = "continue"
                 /\ ev'.session
                 /\ ev'.job \in resume_sessions
              \/ ev'.type = "link_done" /\ ev'.saved
        /\ \A j \in JobIds, o \in Origins :
              /\ (exec[j][o].pc = "pass" /\ exec'[j][o] # exec[j][o]
                    /\ ev'.type # "restart") => session_file' = session_file
              /\ RefreshReturns(j, o, FALSE) => session_file' = session_file
      ]_vars

\* A silent refresh returned False on the first Challenge of a run, and the
\* file has the content it started with.
C37_Witness ==
    /\ ev.type = "end"
    /\ ev.after = "challenge"
    /\ ev.attempt = 1
    /\ session_file = 0

\* ------------------------------------------------------- claims on _fire
\* C38: when the callback of a job raises, process_job still returns, the
\* job row has the status the run wrote before it fired, and the callback is
\* gone from _callbacks, so that run cannot invoke it again.
C38_CallbackErrorContained ==
    (ev.type = "end" /\ ev.cb # Null /\ ev.cb_raised) =>
        /\ ev.outcome = "returned"
        /\ ev.exc = Null
        /\ jobs[ev.job].status = ev.args.status
        /\ callbacks[ev.job] = Null
        /\ ~Live(ev.job, ev.origin)

\* The callback of a job that ended done raised.
C38_Witness ==
    /\ ev.type = "end"
    /\ ev.cb = "on_done"
    /\ ev.cb_raised
    /\ ev.args.status = "done"
    /\ jobs[ev.job].status = "done"

\* ----------------------------------------------- claims on the second pass
\* The build_cart call under way is the one made after a silent refresh.
AfterRefresh == agent.blocked # <<>>

\* C39: the build_cart call made after a silent refresh starts with empty
\* added and failed lists before the first item; when it returns, every item
\* of its list has been searched in this call, the items the blocked call had
\* added included, and the lists given to the callback are the lists this
\* call built.
C39_SecondPassStartsOver ==
    AfterRefresh =>
        /\ agent.pc = "warm" =>
              /\ agent.i = 0
              /\ agent.added = <<>>
              /\ agent.failed = <<>>
              /\ agent.log = <<>>
        /\ agent.log # <<>> =>
              /\ IsCall(1)
              /\ agent.log[1].item = 1
              /\ agent.log[1].attempt = 1
        /\ BuildCartReturned =>
              /\ \A k \in 1..Len(agent.items) : CallsFor(k) # {}
              /\ \A k \in 1..Len(agent.result.added) :
                    \E n \in LogIdx : /\ agent.log[n].op = "added"
                                      /\ agent.log[n].label = agent.result.added[k]
              /\ Len(agent.result.added) + Len(agent.result.failed) = Len(agent.items)
        /\ (BuildCartReturned /\ agent.pc = "handled" /\ ev.type = "end" /\ ev.cb # Null) =>
              /\ ev.attempt = 2
              /\ ev.args.result.added = agent.result.added
              /\ ev.args.result.failed = agent.result.failed

\* The blocked pass had added an item; the pass after the refresh searched it
\* again and failed to add it, and the callback got an empty added list.
C39_Witness ==
    /\ AfterRefresh
    /\ agent.blocked[1] # <<>>
    /\ BuildCartReturned
    /\ agent.pc = "handled"
    /\ ev.type = "end"
    /\ ev.cb # Null
    /\ ev.args.result.added = <<>>
    /\ ev.args.result.failed # <<>>

\* -------------------------------------- claims on _optimize_search_queries
\* C40: _optimize_search_queries returns a list as long as its input, whose
\* i-th item has the i-th input item's qty and max_price and is either that
\* item or that item with the reply's query as name and no brand; when the
\* AI call or the parsing of its reply fails, it returns the input list.
C40_OptimizeKeepsItems ==
    Returned("_optimize_search_queries") =>
        /\ Len(call.ret) = Len(call.arg.items)
        /\ \A i \in 1..Len(call.arg.items) :
              /\ call.ret[i].qty = call.arg.items[i].qty
              /\ call.ret[i].max_price = call.arg.items[i].max_price
              /\ \/ call.ret[i] = call.arg.items[i]
                 \/ /\ call.ret[i].name = OptName[call.arg.items[i].name]
                    /\ call.ret[i].brand = Null
        /\ ~call.arg.reply.ok => call.ret = call.arg.items

\* A reply one entry short of the list, for a list whose first item has a
\* brand: the first item was rewritten, the second was kept.
C40_Witness ==
    /\ Returned("_optimize_search_queries")
    /\ Len(call.arg.items) = 2
    /\ call.arg.reply.ok
    /\ call.arg.reply.queries = <<TRUE>>
    /\ call.arg.items[1].brand # Null
    /\ call.ret[1].brand = Null
    /\ call.ret[1].name # call.arg.items[1].name
    /\ call.ret[2] = call.arg.items[2]

====
